---- MODULE Spec2Model ----
(***************************************************************************)
(* Model of the death-judgment engine of Sacrilege Engine                  *)
(* (src/src/intelligence/death_analyzer.py) and of the live viewer that    *)
(* drives it (src/radar/radar_replayer.py, RadarReplayer._update).         *)
(*                                                                         *)
(* Coordinates are integers.  A distance d = sqrt(dx*dx + dy*dy) is kept   *)
(* as its square d*d, so that the comparison  d > t  of the code is the    *)
(* comparison  d*d > t*t  here (sqrt is monotone and exact on squares).    *)
(***************************************************************************)
EXTENDS Integers, Sequences, FiniteSets, TLC

\* ------------------------------------------------------------------------
\* Bounds of the model
\* ------------------------------------------------------------------------
MaxCalls == 3          \* engine API calls in one behaviour of Spec
MaxViewerDeaths == 4   \* judgments the viewer may record in one behaviour

\* ------------------------------------------------------------------------
\* Program constants (class DeathAnalyzer)
\* ------------------------------------------------------------------------
ISOLATED_DISTANCE == 900
CLOSE_SUPPORT == 400
SOLO_PUSH_DISTANCE == 1200
TRADE_WINDOW_TICKS == 192
FLASH_EFFECT_TICKS == 96
NO_TEAMMATE_DISTANCE == 9999
BLAME_ISOLATION_DISTANCE == 1000
FLASH_RADIUS == 800
MOLLY_RADIUS == 180

\* A value a dict lookup does not find (dict.get returns its default).
Missing == "<missing>"
\* An event without a usable victim position (None, or no attribute x).
NoPos == <<>>

\* ------------------------------------------------------------------------
\* Small helpers
\* ------------------------------------------------------------------------
Max2(a, b) == IF a >= b THEN a ELSE b
Min2(a, b) == IF a <= b THEN a ELSE b
Sq(n) == n * n
Range(s) == {s[i] : i \in 1..Len(s)}

\* Squared Euclidean distance between a position <<x, y>> and a dict with
\* keys x and y.
Dist2(pos, d) == Sq(pos[1] - d.x) + Sq(pos[2] - d.y)

\* ------------------------------------------------------------------------
\* MistakeType and DeathAnalysis
\* ------------------------------------------------------------------------
MistakeType ==
    {"isolated", "crossfire", "solo_push", "no_trade", "wide_peek", "utility",
     "flashed", "in_molly", "outnumbered", "repeeker", "first", "timing",
     "clutch", "fair_duel", "traded"}

\* the priority list with FAIR_DUEL ahead of TRADED
priority_FairDuelFirst ==
    <<"isolated", "crossfire", "solo_push", "no_trade", "wide_peek", "utility",
      "flashed", "in_molly", "outnumbered", "repeeker", "first", "timing",
      "clutch", "fair_duel", "traded">>

priority ==
    <<"isolated", "crossfire", "solo_push", "no_trade", "wide_peek", "utility",
      "flashed", "in_molly", "outnumbered", "repeeker", "first", "timing",
      "clutch", "traded", "fair_duel">>

RECURSIVE FirstOfPriority(_, _)
FirstOfPriority(p, mistakes) ==
    IF p = <<>>
    THEN IF mistakes # <<>> THEN mistakes[1] ELSE "fair_duel"
    ELSE IF Head(p) \in Range(mistakes)
         THEN Head(p)
         ELSE FirstOfPriority(Tail(p), mistakes)

\* primary_mistake that answers the tag raised first
primary_mistake_FirstRaised(a) == IF a.mistakes # <<>> THEN a.mistakes[1] ELSE "fair_duel"

\* DeathAnalysis.primary_mistake
primary_mistake(a) == FirstOfPriority(priority, a.mistakes)

\* blame_score with the isolation bonus from 1000 on
blame_score_BonusAt1000(a) ==
    LET base0 == a.severity * 20
        base1 == IF a.teammate_distance_sq >= Sq(BLAME_ISOLATION_DISTANCE)
                 THEN base0 + 10 ELSE base0
        base2 == IF a.enemy_count >= 3 THEN base1 - 10 ELSE base1
        base3 == IF a.was_traded THEN base2 - 15 ELSE base2
        base4 == IF a.was_flashed THEN base3 - 5 ELSE base3
    IN  Max2(0, Min2(100, base4))

\* DeathAnalysis.blame_score
blame_score(a) ==
    LET base0 == a.severity * 20
        base1 == IF a.teammate_distance_sq > Sq(BLAME_ISOLATION_DISTANCE)
                 THEN base0 + 10 ELSE base0
        base2 == IF a.enemy_count >= 3 THEN base1 - 10 ELSE base1
        base3 == IF a.was_traded THEN base2 - 15 ELSE base2
        base4 == IF a.was_flashed THEN base3 - 5 ELSE base3
    IN  Max2(0, Min2(100, base4))

\* sum(...) over a list of numbers
RECURSIVE SumSeq(_)
SumSeq(q) == IF q = <<>> THEN 0 ELSE Head(q) + SumSeq(Tail(q))

\* d.blame_score() for d in a list of analyses
BlameOf(q) == [i \in 1..Len(q) |-> blame_score(q[i])]

\* ------------------------------------------------------------------------
\* Geometry and window helpers of DeathAnalyzer
\* ------------------------------------------------------------------------
\* _get_victim_position: the event's position when it has one, else the
\* victim's entry of the snapshot, else the origin.
RECURSIVE FindPlayerPos(_, _)
FindPlayerPos(players, victim_name) ==
    IF players = <<>> THEN <<0, 0>>
    ELSE IF Head(players).name = victim_name
         THEN <<Head(players).x, Head(players).y>>
         ELSE FindPlayerPos(Tail(players), victim_name)

get_victim_position(kill_event, players, victim_name) ==
    IF kill_event.victim_pos # NoPos
    THEN kill_event.victim_pos
    ELSE FindPlayerPos(players, victim_name)

RECURSIVE MinDist2(_, _, _)
MinDist2(pos, teammates, min_dist) ==
    IF teammates = <<>> THEN min_dist
    ELSE MinDist2(pos, Tail(teammates), Min2(min_dist, Dist2(pos, Head(teammates))))

\* nearest_teammate_distance that answers 0 when there is no teammate
nearest_teammate_distance_ZeroWhenAlone(pos, teammates) ==
    IF teammates = <<>> THEN 0
    ELSE MinDist2(pos, teammates, Sq(NO_TEAMMATE_DISTANCE))

\* _nearest_teammate_distance (squared; 9999 when there is no teammate)
nearest_teammate_distance(pos, teammates) ==
    IF teammates = <<>> THEN Sq(NO_TEAMMATE_DISTANCE)
    ELSE MinDist2(pos, teammates, Sq(NO_TEAMMATE_DISTANCE))

RECURSIVE check_if_traded_OpenEnd(_, _, _)
\* _check_if_traded with the window open at its end
check_if_traded_OpenEnd(attacker_name, recent_kills, tick) ==
    IF recent_kills = <<>> THEN FALSE
    ELSE LET k == Head(recent_kills) IN
         IF k.victim = attacker_name /\ tick < k.tick
                                     /\ k.tick < tick + TRADE_WINDOW_TICKS
         THEN TRUE
         ELSE check_if_traded_OpenEnd(attacker_name, Tail(recent_kills), tick)

RECURSIVE check_if_traded(_, _, _)
\* _check_if_traded
check_if_traded(attacker_name, recent_kills, tick) ==
    IF recent_kills = <<>> THEN FALSE
    ELSE LET k == Head(recent_kills) IN
         IF k.victim = attacker_name /\ tick < k.tick
                                     /\ k.tick <= tick + TRADE_WINDOW_TICKS
         THEN TRUE
         ELSE check_if_traded(attacker_name, Tail(recent_kills), tick)

RECURSIVE was_victim_flashed_ClosedRadius(_, _, _)
\* was_victim_flashed that also counts an effect at exactly the radius
was_victim_flashed_ClosedRadius(pos, flashes, tick) ==
    IF flashes = <<>> THEN FALSE
    ELSE LET f == Head(flashes) IN
         IF f.start <= tick /\ tick <= f.start + FLASH_EFFECT_TICKS
                            /\ Dist2(pos, f) <= Sq(FLASH_RADIUS)
         THEN TRUE
         ELSE was_victim_flashed_ClosedRadius(pos, Tail(flashes), tick)

RECURSIVE was_victim_flashed(_, _, _)
\* _was_victim_flashed
was_victim_flashed(pos, flashes, tick) ==
    IF flashes = <<>> THEN FALSE
    ELSE LET f == Head(flashes) IN
         IF f.start <= tick /\ tick <= f.start + FLASH_EFFECT_TICKS
                            /\ Dist2(pos, f) < Sq(FLASH_RADIUS)
         THEN TRUE
         ELSE was_victim_flashed(pos, Tail(flashes), tick)

RECURSIVE in_molotov_OpenEnd(_, _, _)
\* in_molotov whose fire is already out at its end tick
in_molotov_OpenEnd(pos, mollies, tick) ==
    IF mollies = <<>> THEN FALSE
    ELSE LET m == Head(mollies) IN
         IF m.start <= tick /\ tick < m.end /\ Dist2(pos, m) < Sq(MOLLY_RADIUS)
         THEN TRUE
         ELSE in_molotov_OpenEnd(pos, Tail(mollies), tick)

RECURSIVE in_molotov(_, _, _)
\* _in_molotov
in_molotov(pos, mollies, tick) ==
    IF mollies = <<>> THEN FALSE
    ELSE LET m == Head(mollies) IN
         IF m.start <= tick /\ tick <= m.end /\ Dist2(pos, m) < Sq(MOLLY_RADIUS)
         THEN TRUE
         ELSE in_molotov(pos, Tail(mollies), tick)

\* int((atan2(dy, dx) + pi) / (pi / 4)) % 8 for integers dx, dy not both 0:
\* the octants are counted counter-clockwise from the negative x axis, each
\* closed at its lower bearing; atan2(0, dx < 0) = pi lands in 8 % 8 = 0.
Sector(dx, dy) ==
    CASE dx < 0  /\ dy <= 0 /\ -dy < -dx  -> 0
      [] dx < 0  /\ dy < 0  /\ -dy >= -dx -> 1
      [] dx >= 0 /\ dy < 0  /\ -dy > dx   -> 2
      [] dx > 0  /\ dy < 0  /\ -dy <= dx  -> 3
      [] dx > 0  /\ dy >= 0 /\ dy < dx    -> 4
      [] dx > 0  /\ dy >= dx              -> 5
      [] dx <= 0 /\ dy > 0  /\ dy > -dx   -> 6
      [] dx < 0  /\ dy > 0  /\ dy <= -dx  -> 7

\* _count_enemy_angles
count_enemy_angles(pos, enemies) ==
    IF Len(enemies) < 2 THEN Len(enemies)
    ELSE Cardinality({Sector(enemies[i].x - pos[1], enemies[i].y - pos[2]) :
                        i \in {j \in 1..Len(enemies) :
                                 ~(enemies[j].x - pos[1] = 0
                                   /\ enemies[j].y - pos[2] = 0)}})

\* int(teammate_distance): the integer part of the square root, found by
\* bisection between lo and hi (lo*lo <= n < hi*hi).
RECURSIVE IsqrtBetween(_, _, _)
IsqrtBetween(n, lo, hi) ==
    IF hi - lo <= 1 THEN lo
    ELSE LET mid == (lo + hi) \div 2 IN
         IF Sq(mid) <= n THEN IsqrtBetween(n, mid, hi)
         ELSE IsqrtBetween(n, lo, mid)
IntDist(d2) == IsqrtBetween(d2, 0, NO_TEAMMATE_DISTANCE + 1)

\* ------------------------------------------------------------------------
\* The judgment of one elimination: DeathAnalyzer.analyze_death from the
\* reading of the event to the construction of the DeathAnalysis.  order is
\* round_death_order after its increment.
\* ------------------------------------------------------------------------
GetOr(v, default) == IF v = Missing THEN default ELSE v

\* mistakes.append(tag); reasons.append(reason); severity = max(severity, sev)
Raise_Overwrites(st, tag, reason, sev) ==
    [mistakes |-> Append(st.mistakes, tag),
     reasons  |-> Append(st.reasons, reason),
     severity |-> sev]

\* mistakes.append(tag); reasons.append(reason); severity = max(severity, sev)
Raise(st, tag, reason, sev) ==
    [mistakes |-> Append(st.mistakes, tag),
     reasons  |-> Append(st.reasons, reason),
     severity |-> Max2(st.severity, sev)]

\* RaiseTraded without the floor at 1
RaiseTraded_NoFloor(st) ==
    [mistakes |-> Append(st.mistakes, "traded"),
     reasons  |-> Append(st.reasons, <<"TRADED">>),
     severity |-> st.severity - 1]

\* rule 6 when the death was traded: severity = max(1, severity - 1)
RaiseTraded(st) ==
    [mistakes |-> Append(st.mistakes, "traded"),
     reasons  |-> Append(st.reasons, <<"TRADED">>),
     severity |-> Max2(1, st.severity - 1)]

\* rule 9: severity = 1
RaiseFairDuel(st) ==
    [mistakes |-> Append(st.mistakes, "fair_duel"),
     reasons  |-> Append(st.reasons, <<"AIM DUEL">>),
     severity |-> 1]

\* rule 1 that fires from 900 on
RuleIsolated_From900(f, st) ==
    IF f.teammate_distance_sq >= Sq(ISOLATED_DISTANCE)
    THEN [mistakes |-> Append(st.mistakes, "isolated"),
          reasons  |-> Append(st.reasons,
                              <<"ISOLATED", IntDist(f.teammate_distance_sq)>>),
          severity |-> 5]
    ELSE st

\* rule 1: severity = 5
RuleIsolated(f, st) ==
    IF f.teammate_distance_sq > Sq(ISOLATED_DISTANCE)
    THEN [mistakes |-> Append(st.mistakes, "isolated"),
          reasons  |-> Append(st.reasons,
                              <<"ISOLATED", IntDist(f.teammate_distance_sq)>>),
          severity |-> 5]
    ELSE st

\* rule 2
RuleCrossfire(f, st) ==
    IF f.enemy_count >= 2 /\ f.angles >= 2
    THEN Raise(st, "crossfire", <<"CROSSFIRE", f.angles>>, 5)
    ELSE st

\* rule 3 that looks at the number of teammates only
RuleSoloPush_AnyDistance(f, st) ==
    IF f.teammate_count >= 2
    THEN Raise(st, "solo_push",
               <<"SOLO PUSH", IntDist(f.teammate_distance_sq)>>, 5)
    ELSE st

\* rule 3
RuleSoloPush(f, st) ==
    IF f.teammate_distance_sq > Sq(SOLO_PUSH_DISTANCE) /\ f.teammate_count >= 2
    THEN Raise(st, "solo_push",
               <<"SOLO PUSH", IntDist(f.teammate_distance_sq)>>, 5)
    ELSE st

\* rule 4
RuleFlashed(f, st) ==
    IF f.was_flashed THEN Raise(st, "flashed", <<"FLASHED">>, 3) ELSE st

\* rule 5
RuleInMolly(f, st) ==
    IF f.in_utility THEN Raise(st, "in_molly", <<"IN FIRE">>, 3) ELSE st

\* rule 6 whose traded branch adds the tag and keeps the severity
RuleTrade_KeepsSeverity(f, st) ==
    IF f.was_traded
    THEN Raise(st, "traded", <<"TRADED">>, 1)
    ELSE IF f.was_tradeable /\ f.teammate_count > 0
            /\ "isolated" \notin Range(st.mistakes)
         THEN Raise(st, "no_trade",
                    <<"NO TRADE", IntDist(f.teammate_distance_sq)>>, 4)
         ELSE st

\* rule 6
RuleTrade(f, st) ==
    IF f.was_traded
    THEN RaiseTraded(st)
    ELSE IF f.was_tradeable /\ f.teammate_count > 0
            /\ "isolated" \notin Range(st.mistakes)
         THEN Raise(st, "no_trade",
                    <<"NO TRADE", IntDist(f.teammate_distance_sq)>>, 4)
         ELSE st

\* rule 7 that already fires with two hostiles more than teammates
RuleOutnumbered_FromTwoMore(f, st) ==
    IF f.enemy_count >= f.teammate_count + 2
    THEN IF f.teammate_count = 0
         THEN Raise(st, "clutch", <<"CLUTCH", f.enemy_count>>, 1)
         ELSE Raise(st, "outnumbered",
                    <<"OUTNUMBERED", f.enemy_count, f.teammate_count + 1>>, 3)
    ELSE st

\* rule 7
RuleOutnumbered(f, st) ==
    IF f.enemy_count > f.teammate_count + 2
    THEN IF f.teammate_count = 0
         THEN Raise(st, "clutch", <<"CLUTCH", f.enemy_count>>, 1)
         ELSE Raise(st, "outnumbered",
                    <<"OUTNUMBERED", f.enemy_count, f.teammate_count + 1>>, 3)
    ELSE st

\* rule 8 that does not look at the death order
RuleFirstContact_AnyOrder(order, st) ==
    IF st.mistakes = <<>>
    THEN Raise(st, "first", <<"ENTRY">>, 2)
    ELSE st

\* rule 8
RuleFirstContact(order, st) ==
    IF order = 1 /\ st.mistakes = <<>>
    THEN Raise(st, "first", <<"ENTRY">>, 2)
    ELSE st

\* rule 9
RuleFairDuel(st) ==
    IF st.mistakes = <<>> THEN RaiseFairDuel(st) ELSE st

\* mistakes = []; reasons = []; severity = 1
NoMistakes == [mistakes |-> <<>>, reasons |-> <<>>, severity |-> 1]

\* the rules in their order
Classify(f, order) ==
    RuleFairDuel(
     RuleFirstContact(order,
      RuleOutnumbered(f,
       RuleTrade(f,
        RuleInMolly(f,
         RuleFlashed(f,
          RuleSoloPush(f,
           RuleCrossfire(f,
            RuleIsolated(f, NoMistakes)))))))))

\* rule k of the nine, applied to the running state st
ApplyRule(k, f, order, st) ==
    CASE k = 1 -> RuleIsolated(f, st)
      [] k = 2 -> RuleCrossfire(f, st)
      [] k = 3 -> RuleSoloPush(f, st)
      [] k = 4 -> RuleFlashed(f, st)
      [] k = 5 -> RuleInMolly(f, st)
      [] k = 6 -> RuleTrade(f, st)
      [] k = 7 -> RuleOutnumbered(f, st)
      [] k = 8 -> RuleFirstContact(order, st)
      [] k = 9 -> RuleFairDuel(st)

\* mistakes, reasons and severity as they stand after rule k of the pass
\* (k = 0: before rule 1; k = 9: what Classify returns)
RECURSIVE StateAfter(_, _, _)
StateAfter(k, f, order) ==
    IF k = 0 THEN NoMistakes ELSE ApplyRule(k, f, order, StateAfter(k - 1, f, order))

\* FactsAt for which a teammate at exactly the close-support distance can
\* still trade
FactsAt_TradeableAt400(victim_pos, teammates, enemies, attacker_name, mollies, flashes, recent_kills, tick) ==
    [position       |-> victim_pos,
     teammate_distance_sq |-> nearest_teammate_distance(victim_pos, teammates),
     enemy_count    |-> Len(enemies) + 1,
     teammate_count |-> Len(teammates),
     angles         |-> count_enemy_angles(victim_pos, enemies),
     was_flashed    |-> was_victim_flashed(victim_pos, flashes, tick),
     in_utility     |-> in_molotov(victim_pos, mollies, tick),
     was_traded     |-> check_if_traded(attacker_name, recent_kills, tick),
     was_tradeable  |-> nearest_teammate_distance(victim_pos, teammates)
                            <= Sq(CLOSE_SUPPORT)]

\* the facts of the death, from the victim's position and the two lists
FactsAt(victim_pos, teammates, enemies, attacker_name, mollies, flashes, recent_kills, tick) ==
    [position       |-> victim_pos,
     teammate_distance_sq |-> nearest_teammate_distance(victim_pos, teammates),
     enemy_count    |-> Len(enemies) + 1,
     teammate_count |-> Len(teammates),
     angles         |-> count_enemy_angles(victim_pos, enemies),
     was_flashed    |-> was_victim_flashed(victim_pos, flashes, tick),
     in_utility     |-> in_molotov(victim_pos, mollies, tick),
     was_traded     |-> check_if_traded(attacker_name, recent_kills, tick),
     was_tradeable  |-> nearest_teammate_distance(victim_pos, teammates)
                            < Sq(CLOSE_SUPPORT)]

\* teammates and enemies of the victim among the players
Teammates(players, victim_name, victim_team) ==
    LET IsTeammate(p) == p.team = victim_team /\ p.name # victim_name /\ p.alive
    IN  SelectSeq(players, IsTeammate)
Enemies(players, victim_team) ==
    LET IsEnemy(p) == p.team # victim_team /\ p.alive
    IN  SelectSeq(players, IsEnemy)

FactsOf(kill_event, players, mollies, flashes, recent_kills, tick, victim_name, victim_team) ==
    FactsAt(get_victim_position(kill_event, players, victim_name),
            Teammates(players, victim_name, victim_team),
            Enemies(players, victim_team),
            GetOr(kill_event.attacker, "?"), mollies, flashes, recent_kills, tick)

\* DeathAnalysis(...)
MakeAnalysis(kill_event, tick, round_num, f, st) ==
    [victim_name    |-> GetOr(kill_event.victim, "?"),
     victim_team    |-> GetOr(kill_event.victim_team, "CT"),
     attacker_name  |-> GetOr(kill_event.attacker, "?"),
     tick           |-> tick,
     round_num      |-> round_num,
     position       |-> f.position,
     mistakes       |-> st.mistakes,
     reasons        |-> st.reasons,
     severity       |-> st.severity,
     was_tradeable  |-> f.was_tradeable,
     was_traded     |-> f.was_traded,
     teammate_distance_sq |-> f.teammate_distance_sq,
     was_flashed    |-> f.was_flashed,
     in_utility     |-> f.in_utility,
     enemy_count    |-> f.enemy_count,
     teammate_count |-> f.teammate_count]

JudgeFacts(kill_event, tick, round_num, order, f) ==
    MakeAnalysis(kill_event, tick, round_num, f, Classify(f, order))

Judge(kill_event, players, mollies, flashes, recent_kills, tick, round_num, order) ==
    JudgeFacts(kill_event, tick, round_num, order,
               FactsOf(kill_event, players, mollies, flashes, recent_kills, tick,
                       GetOr(kill_event.victim, "?"),
                       GetOr(kill_event.victim_team, "CT")))

\* ------------------------------------------------------------------------
\* The engine: class DeathAnalyzer.  The engine state is one record with the
\* fields of the object; player_stats is the insertion-ordered dict, kept as
\* the sequence of its values (each PlayerStats carries its key, name).
\* ------------------------------------------------------------------------
\* DeathAnalyzer.__init__
NewEngine ==
    [death_history     |-> <<>>,
     round_deaths      |-> <<>>,
     current_round     |-> 0,
     round_death_order |-> 0,
     player_stats      |-> <<>>,
     round_kills       |-> <<>>]

\* PlayerStats(name=name, team=team)
NewPlayerStats(name, team) ==
    [name |-> name, team |-> team, kills |-> 0, deaths |-> 0, assists |-> 0,
     total_blame |-> 0, mistake_counts |-> <<>>, death_analyses |-> <<>>]

HasPlayer(ps, name) == \E i \in 1..Len(ps) : ps[i].name = name
IndexOf(ps, name) == CHOOSE i \in 1..Len(ps) : ps[i].name = name

\* if name not in self.player_stats: self.player_stats[name] = PlayerStats(...)
EnsurePlayer(ps, name, team) ==
    IF HasPlayer(ps, name) THEN ps ELSE Append(ps, NewPlayerStats(name, team))

\* mistake_counts[key] = mistake_counts.get(key, 0) + 1
CountUp(mc, key) ==
    IF key \in DOMAIN mc
    THEN [mc EXCEPT ![key] = @ + 1]
    ELSE (key :> 1) @@ mc

\* update_player_stats that forgets to append the judgment to the entry
update_player_stats_NoAppend(ps, analysis) ==
    LET ps1 == EnsurePlayer(ps, analysis.victim_name, analysis.victim_team)
        i   == IndexOf(ps1, analysis.victim_name)
    IN  [ps1 EXCEPT ![i] =
            [@ EXCEPT !.deaths = @ + 1,
                      !.total_blame = @ + blame_score(analysis),
                      !.mistake_counts = CountUp(@, primary_mistake(analysis))]]

\* DeathAnalyzer._update_player_stats
update_player_stats(ps, analysis) ==
    LET ps1 == EnsurePlayer(ps, analysis.victim_name, analysis.victim_team)
        i   == IndexOf(ps1, analysis.victim_name)
    IN  [ps1 EXCEPT ![i] =
            [@ EXCEPT !.deaths = @ + 1,
                      !.total_blame = @ + blame_score(analysis),
                      !.death_analyses = Append(@, analysis),
                      !.mistake_counts = CountUp(@, primary_mistake(analysis))]]

\* RoundTransition that leaves the death-order counter alone
RoundTransition_KeepsOrder(e, round_num) ==
    IF round_num # e.current_round
    THEN [e EXCEPT !.current_round = round_num,
                   !.round_deaths = <<>>,
                   !.round_kills = <<>>]
    ELSE e

\* the round reset at the head of analyze_death
RoundTransition(e, round_num) ==
    IF round_num # e.current_round
    THEN [e EXCEPT !.current_round = round_num,
                   !.round_deaths = <<>>,
                   !.round_death_order = 0,
                   !.round_kills = <<>>]
    ELSE e

\* CountDeath that counts the recent kills instead of the death
CountDeath_CountsKills(e, recent_kills) ==
    [e EXCEPT !.round_death_order = @ + Len(recent_kills),
              !.round_kills = @ \o recent_kills]

\* self.round_death_order += 1; self.round_kills.extend(recent_kills)
CountDeath(e, recent_kills) ==
    [e EXCEPT !.round_death_order = @ + 1,
              !.round_kills = @ \o recent_kills]

\* RecordAnalysis that keeps only the newest judgment in the history
RecordAnalysis_DropsHistory(e, analysis) ==
    [engine |-> [e EXCEPT !.death_history = <<analysis>>,
                          !.round_deaths = Append(@, analysis),
                          !.player_stats = update_player_stats(@, analysis)],
     ret |-> analysis]

\* the tail of analyze_death: the analysis is recorded and returned
RecordAnalysis(e, analysis) ==
    [engine |-> [e EXCEPT !.death_history = Append(@, analysis),
                          !.round_deaths = Append(@, analysis),
                          !.player_stats = update_player_stats(@, analysis)],
     ret |-> analysis]

JudgeAndRecord(e, in) ==
    RecordAnalysis(e, Judge(in.kill_event, in.players, in.mollies, in.flashes,
                            in.recent_kills, in.tick, in.round_num,
                            e.round_death_order))

\* DeathAnalyzer.analyze_death: the new engine state and the returned
\* DeathAnalysis.  in is the record of the call's arguments.
analyze_death(e, in) ==
    JudgeAndRecord(CountDeath(RoundTransition(e, in.round_num), in.recent_kills), in)

\* reset_round that also drops the recorded judgments
reset_round_ClearsLedger(e) ==
    [e EXCEPT !.round_deaths = <<>>, !.round_death_order = 0,
              !.death_history = <<>>, !.player_stats = <<>>]

\* reset_round that leaves the death-order counter alone
reset_round_KeepsOrder(e) ==
    [e EXCEPT !.round_deaths = <<>>]

\* DeathAnalyzer.reset_round
reset_round(e) ==
    [e EXCEPT !.round_deaths = <<>>, !.round_death_order = 0]

\* update_kill that replaces the attacker's entry by a fresh one
update_kill_FreshEntry(e, attacker_name, team) ==
    LET ps1 == EnsurePlayer(e.player_stats, attacker_name, team)
        i   == IndexOf(ps1, attacker_name)
    IN  [e EXCEPT !.player_stats =
            [ps1 EXCEPT ![i] = [NewPlayerStats(attacker_name, team) EXCEPT !.kills = ps1[i].kills + 1]]]

\* DeathAnalyzer.update_kill
update_kill(e, attacker_name, team) ==
    LET ps1 == EnsurePlayer(e.player_stats, attacker_name, team)
        i   == IndexOf(ps1, attacker_name)
    IN  [e EXCEPT !.player_stats = [ps1 EXCEPT ![i] = [@ EXCEPT !.kills = @ + 1]]]

\* ------------------------------------------------------------------------
\* PlayerStats properties and the ledger's read-only queries.  The program
\* computes them in floating point; here a value is the exact fraction
\* num/den with den > 0, so two scores compare by cross-multiplication.
\* ------------------------------------------------------------------------
Frac(num, den) == [num |-> num, den |-> den]
FracLeq(a, b) == a.num * b.den <= b.num * a.den
FracEq(a, b) == a.num * b.den = b.num * a.den

\* PlayerStats.kd_ratio
kd_ratio(p) == Frac(p.kills, Max2(1, p.deaths))

\* PlayerStats.avg_blame
avg_blame(p) ==
    IF p.death_analyses = <<>>
    THEN Frac(0, 1)
    ELSE Frac(SumSeq(BlameOf(p.death_analyses)), Len(p.death_analyses))

\* kd * 40 - ab * 0.4 + 20 over the denominator 5 * kd.den * ab.den
ScoreOf(kd, ab) ==
    Frac(200 * kd.num * ab.den - 2 * ab.num * kd.den + 100 * kd.den * ab.den, 5 * kd.den * ab.den)

\* performance_score without the lower clamp
performance_score_NoClamp(p) ==
    ScoreOf(kd_ratio(p), avg_blame(p))

\* PlayerStats.performance_score
performance_score(p) ==
    [ScoreOf(kd_ratio(p), avg_blame(p)) EXCEPT !.num = Max2(0, @)]

\* the grade ladder of rank_grade applied to a score
GradeOf(score) ==
    IF score.num >= 80 * score.den THEN "S"
    ELSE IF score.num >= 65 * score.den THEN "A"
    ELSE IF score.num >= 50 * score.den THEN "B"
    ELSE IF score.num >= 35 * score.den THEN "C"
    ELSE IF score.num >= 20 * score.den THEN "D"
    ELSE "F"

\* PlayerStats.rank_grade
rank_grade(p) == GradeOf(performance_score(p))

\* one step of the stable sort by key -performance_score: p, which comes
\* later in the ledger than everything in ranked, goes behind every entry
\* whose score is at least its own
InsertRanked(ranked, p) ==
    LET k == Cardinality({i \in 1..Len(ranked) : FracLeq(performance_score(p), performance_score(ranked[i]))})
    IN  SubSeq(ranked, 1, k) \o <<p>> \o SubSeq(ranked, k + 1, Len(ranked))

\* sorted(values, key=lambda p: -p.performance_score)
RECURSIVE SortedByScore(_)
SortedByScore(ps) ==
    IF ps = <<>> THEN <<>>
    ELSE InsertRanked(SortedByScore(SubSeq(ps, 1, Len(ps) - 1)), ps[Len(ps)])

\* get_rankings whose sort puts the later of two equal scores first
get_rankings_TiesReversed(e) ==
    SortedByScore(SubSeq([i \in 1..Len(e.player_stats) |-> e.player_stats[Len(e.player_stats) + 1 - i]], 1, Len(e.player_stats)))

\* DeathAnalyzer.get_rankings: the returned list; the engine is not written
get_rankings(e) ==
    SortedByScore(e.player_stats)

\* the per-tag counts of get_round_summary
RECURSIVE SummaryCounts(_, _)
SummaryCounts(deaths, mc) ==
    IF deaths = <<>> THEN mc
    ELSE SummaryCounts(Tail(deaths), CountUp(mc, primary_mistake(Head(deaths))))

SeverityOf(q) == [i \in 1..Len(q) |-> q[i].severity]

\* DeathAnalyzer.get_round_summary: the returned dict; the engine is not
\* written
get_round_summary(e) ==
    IF e.round_deaths = <<>>
    THEN [total |-> 0, mistakes |-> <<>>, avg_severity |-> Frac(0, 1)]
    ELSE [total |-> Len(e.round_deaths),
          mistakes |-> SummaryCounts(e.round_deaths, <<>>),
          avg_severity |-> Frac(SumSeq(SeverityOf(e.round_deaths)), Len(e.round_deaths)),
          total_blame |-> SumSeq(BlameOf(e.round_deaths)),
          avg_blame |-> Frac(SumSeq(BlameOf(e.round_deaths)), Len(e.round_deaths))]

\* ------------------------------------------------------------------------
\* Inputs of the engine calls
\* ------------------------------------------------------------------------
Player(name, team, x, y, alive) ==
    [name |-> name, team |-> team, x |-> x, y |-> y, alive |-> alive]

\* a kill dict as the viewer builds it (load_demo), with the keys the engine
\* reads
Kill(victim, attacker, attacker_team, victim_team, tick, victim_pos) ==
    [victim |-> victim, attacker |-> attacker, attacker_team |-> attacker_team,
     victim_team |-> victim_team, tick |-> tick, victim_pos |-> victim_pos]

Flash(start, x, y) == [start |-> start, x |-> x, y |-> y]
Molly(start, end, x, y) == [start |-> start, end |-> end, x |-> x, y |-> y]

Victims == {"v1", "v2"}
EngineRounds == {1, 2}
BaseTick == 1000

\* The situations of a death: snapshot, area effects, recent eliminations,
\* the event's position and the attacker.  The victim is on team CT.
Situations ==
    { \* a teammate at 600, one hostile: no rule of 1-7 fires
      [players |-> <<Player("m1", "CT", 600, 0, TRUE), Player("a1", "T", 0, 500, TRUE)>>,
       mollies |-> <<>>, flashes |-> <<>>, recent_kills |-> <<>>,
       victim_pos |-> <<0, 0>>, attacker |-> "a1", tick |-> BaseTick],
      \* empty snapshot: the sentinel distance
      [players |-> <<>>,
       mollies |-> <<>>, flashes |-> <<>>, recent_kills |-> <<>>,
       victim_pos |-> NoPos, attacker |-> "a1", tick |-> BaseTick],
      \* traded one tick later, three hostiles on one bearing
      [players |-> <<Player("m1", "CT", 600, 0, TRUE), Player("a1", "T", 500, 0, TRUE),
                     Player("a2", "T", 700, 0, TRUE)>>,
       mollies |-> <<>>, flashes |-> <<>>,
       recent_kills |-> <<Kill("a1", "m1", "CT", "T", BaseTick + 1, NoPos)>>,
       victim_pos |-> <<0, 0>>, attacker |-> "a1", tick |-> BaseTick],
      \* close teammate who did not trade, victim blind and in fire
      [players |-> <<Player("m1", "CT", 300, 0, TRUE), Player("a1", "T", 0, 500, TRUE)>>,
       mollies |-> <<Molly(BaseTick - 50, BaseTick + 50, 100, 0)>>,
       flashes |-> <<Flash(BaseTick - 96, 0, 700)>>,
       recent_kills |-> <<Kill("a2", "m1", "CT", "T", BaseTick + 10, NoPos)>>,
       victim_pos |-> <<0, 0>>, attacker |-> "a1", tick |-> BaseTick],
      \* hostiles on three bearings, one living and one dead teammate
      [players |-> <<Player("m1", "CT", 300, 0, TRUE), Player("m2", "CT", 100, 0, FALSE),
                     Player("a1", "T", 500, 0, TRUE), Player("a2", "T", 0, 500, TRUE),
                     Player("a3", "T", -500, 0, TRUE)>>,
       mollies |-> <<>>, flashes |-> <<>>, recent_kills |-> <<>>,
       victim_pos |-> <<0, 0>>, attacker |-> "a1", tick |-> BaseTick + 100],
      \* ahead of two living teammates, position taken from the snapshot,
      \* traded at the end of the window
      [players |-> <<Player("v1", "CT", 100, 100, FALSE), Player("v2", "CT", 100, 100, FALSE),
                     Player("m1", "CT", 1400, 100, TRUE), Player("m2", "CT", 100, 1500, TRUE),
                     Player("a1", "T", 500, 100, TRUE)>>,
       mollies |-> <<>>, flashes |-> <<>>,
       recent_kills |-> <<Kill("a1", "m1", "CT", "T", BaseTick + 100 + TRADE_WINDOW_TICKS, NoPos)>>,
       victim_pos |-> NoPos, attacker |-> "a1", tick |-> BaseTick + 100],
      \* last alive against three
      [players |-> <<Player("m1", "CT", 50, 0, FALSE), Player("a1", "T", 500, 0, TRUE),
                     Player("a2", "T", 600, 0, TRUE), Player("a3", "T", 700, 10, TRUE)>>,
       mollies |-> <<>>, flashes |-> <<>>, recent_kills |-> <<>>,
       victim_pos |-> <<0, 0>>, attacker |-> "a1", tick |-> BaseTick + 100] }

\* the arguments of one analyze_death call
AnalyzeArgs(victim, sit, round_num) ==
    [kill_event   |-> Kill(victim, sit.attacker, "T", "CT", sit.tick, sit.victim_pos),
     players      |-> sit.players,
     mollies      |-> sit.mollies,
     flashes      |-> sit.flashes,
     recent_kills |-> sit.recent_kills,
     tick         |-> sit.tick,
     round_num    |-> round_num]

EngineInputs ==
    {AnalyzeArgs(v, sit, r) : v \in Victims, sit \in Situations, r \in EngineRounds}

\* the arguments of update_kill
KillInputs == {<<"a1", "T">>, <<"v1", "CT">>, <<"v1", "T">>}

\* ------------------------------------------------------------------------
\* The live viewer: RadarReplayer.  demo is what load_demo leaves in
\* all_ticks, rounds, kills_by_tick (in the dict's iteration order, one kill
\* after the other), flashes and mollies; snapshots[i] is the list of players
\* that _get_players_for_analysis reads from the frame data for kill i.
\* The viewer state v holds tick_idx (counted from 1), current_round,
\* recent_kills and analyzed_kills; counters and lists that only feed the
\* drawing (round_kills, kill_animations, death_popups) are left out.
\* ------------------------------------------------------------------------
Round(s, e, n) == [s |-> s, e |-> e, n |-> n]

TradeDelays == {1, TRADE_WINDOW_TICKS}

\* two rounds: in round 1 a1 kills v1 and is killed delay ticks later by
\* v1's teammate m1; in round 2 a2 kills v1
DemoWith(delay) ==
    [all_ticks |-> <<0, 100, 296, 520, 580, 700, 900>>,
     rounds    |-> <<Round(0, 550, 1), Round(600, 1000, 2)>>,
     kills     |-> <<Kill("v1", "a1", "T", Missing, 100, <<0, 0>>),
                     Kill("a1", "m1", "CT", Missing, 100 + delay, <<0, 500>>),
                     Kill("v1", "a2", "T", Missing, 700, NoPos)>>,
     snapshots |-> <<
        <<Player("v1", "CT", 0, 0, TRUE), Player("m1", "CT", 600, 0, TRUE),
          Player("a1", "T", 0, 500, TRUE), Player("a2", "T", 0, 900, TRUE)>>,
        <<Player("v1", "CT", 0, 0, FALSE), Player("m1", "CT", 600, 0, TRUE),
          Player("a1", "T", 0, 500, TRUE), Player("a2", "T", 0, 900, TRUE)>>,
        <<Player("m1", "CT", 300, 0, TRUE), Player("a2", "T", 0, 500, TRUE)>> >>,
     flashes   |-> <<Flash(650, 0, 100)>>,
     mollies   |-> <<>>]

Demos == {DemoWith(delay) : delay \in TradeDelays}

\* RadarReplayer.__init__ (the fields _update uses)
NewViewer ==
    [tick_idx |-> 1, current_round |-> 1, recent_kills |-> <<>>,
     analyzed_kills |-> {}]

RECURSIVE RoundOfTick(_, _, _)
\* for s, e, n in self.rounds: if s <= tick <= e: current_round = n; break
RoundOfTick(rounds, tick, current) ==
    IF rounds = <<>> THEN current
    ELSE IF Head(rounds).s <= tick /\ tick <= Head(rounds).e
         THEN Head(rounds).n
         ELSE RoundOfTick(Tail(rounds), tick, current)

RECURSIVE RoundStart(_, _)
\* next((s for s, e, n in self.rounds if n == self.current_round), 0)
RoundStart(rounds, n) ==
    IF rounds = <<>> THEN 0
    ELSE IF Head(rounds).n = n THEN Head(rounds).s
         ELSE RoundStart(Tail(rounds), n)

RECURSIVE VictimTeam(_, _)
\* victim_team = 'T'; for p in players: if p['name'] == victim: ... break
VictimTeam(players, victim) ==
    IF players = <<>> THEN "T"
    ELSE IF Head(players).name = victim THEN Head(players).team
         ELSE VictimTeam(Tail(players), victim)

\* the body of the loop over the kills for one kill that was not analyzed yet
ProcessKill(st, d, i) ==
    LET k0      == d.kills[i]
        players == d.snapshots[i]
        k       == [k0 EXCEPT !.victim_team = VictimTeam(players, k0.victim)]
        recent  == Append(st.viewer.recent_kills, k)
        e1      == update_kill(st.engine, k.attacker, k.attacker_team)
        r       == analyze_death(e1,
                       [kill_event |-> k, players |-> players,
                        mollies |-> d.mollies, flashes |-> d.flashes,
                        recent_kills |-> recent, tick |-> k.tick,
                        round_num |-> st.viewer.current_round])
    IN  [viewer |-> [st.viewer EXCEPT
                        !.analyzed_kills = @ \cup {<<k.tick, k.victim>>},
                        !.recent_kills = recent],
         engine |-> r.engine]

RECURSIVE ProcessKills(_, _, _, _, _)
\* for kt, kills in self.kills_by_tick.items(): if round_start <= kt <= tick: ...
ProcessKills(st, d, i, round_start, tick) ==
    IF i > Len(d.kills) THEN st
    ELSE LET k == d.kills[i] IN
         IF round_start <= k.tick /\ k.tick <= tick
            /\ <<k.tick, k.victim>> \notin st.viewer.analyzed_kills
         THEN ProcessKills(ProcessKill(st, d, i), d, i + 1, round_start, tick)
         ELSE ProcessKills(st, d, i + 1, round_start, tick)

\* RadarReplayer._update: st is the pair of the viewer and its engine
update(st, d) ==
    LET tick == d.all_ticks[st.viewer.tick_idx]
        prev_round == st.viewer.current_round
        cur  == RoundOfTick(d.rounds, tick, prev_round)
        st1  == IF cur # prev_round
                THEN [viewer |-> [st.viewer EXCEPT !.current_round = cur,
                                                   !.recent_kills = <<>>,
                                                   !.analyzed_kills = {}],
                      engine |-> reset_round(st.engine)]
                ELSE st
        st2  == ProcessKills(st1, d, 1, RoundStart(d.rounds, cur), tick)
        Fresh(k) == tick - k.tick < 400
    IN  [st2 EXCEPT !.viewer.recent_kills = SelectSeq(@, Fresh)]

\* index of the first tick >= s, 0 when there is none
FirstTickFrom(all_ticks, s) ==
    IF \E i \in 1..Len(all_ticks) : all_ticks[i] >= s
    THEN CHOOSE i \in 1..Len(all_ticks) :
            /\ all_ticks[i] >= s
            /\ \A j \in 1..(i - 1) : all_ticks[j] < s
    ELSE 0

\* RadarReplayer._next_round: the tick index it seeks to, 0 when it returns
\* without seeking
next_round_target(d, idx) ==
    LET t == d.all_ticks[idx]
        cand == {i \in 1..Len(d.rounds) :
                    d.rounds[i].s > t /\ FirstTickFrom(d.all_ticks, d.rounds[i].s) # 0}
    IN  IF cand = {} THEN 0
        ELSE FirstTickFrom(d.all_ticks,
                 d.rounds[CHOOSE i \in cand : \A j \in cand : i <= j].s)

\* RadarReplayer._prev_round
prev_round_target(d, idx) ==
    LET t == d.all_ticks[idx]
        cand == {i \in 1..Len(d.rounds) :
                    d.rounds[i].e < t /\ FirstTickFrom(d.all_ticks, d.rounds[i].s) # 0}
    IN  IF cand = {} THEN 0
        ELSE FirstTickFrom(d.all_ticks,
                 d.rounds[CHOOSE i \in cand : \A j \in cand : i >= j].s)

KEY_SEEK == 60

\* ------------------------------------------------------------------------
\* State
\* ------------------------------------------------------------------------
VARIABLES
    engine,     \* the DeathAnalyzer object
    viewer,     \* the RadarReplayer object (SpecViewer)
    demo,       \* the loaded demo (SpecViewer)
    last,       \* the last call: its name, arguments and returned value
    calls,      \* number of engine calls made by the caller (Spec)
    passLog,    \* <<arguments, judgment>> of the analyze_death calls since the
                \* death-order counter was last set to 0 (Spec)
    prevLog     \* passLog as it was at the last reset_round of this round

vars == <<engine, viewer, demo, last, calls, passLog, prevLog>>

NoCall == [op |-> "none", in |-> <<>>, ret |-> <<>>]
NoDemo == [all_ticks |-> <<>>, rounds |-> <<>>, kills |-> <<>>,
           snapshots |-> <<>>, flashes |-> <<>>, mollies |-> <<>>]

Init ==
    /\ engine = NewEngine
    /\ viewer = NewViewer
    /\ demo = NoDemo
    /\ last = NoCall
    /\ calls = 0
    /\ passLog = <<>>
    /\ prevLog = <<>>

\* a caller invokes analyze_death
AnalyzeDeath ==
    /\ calls < MaxCalls
    /\ \E in \in EngineInputs :
         /\ \E r \in {analyze_death(engine, in)} :
              /\ engine' = r.engine
              /\ last' = [op |-> "analyze_death", in |-> in, ret |-> r.ret]
         /\ IF in.round_num # engine.current_round
            THEN passLog' = <<[in |-> in, ret |-> last'.ret]>> /\ prevLog' = <<>>
            ELSE passLog' = Append(passLog, [in |-> in, ret |-> last'.ret])
                 /\ prevLog' = prevLog
    /\ calls' = calls + 1
    /\ UNCHANGED <<viewer, demo>>

\* a caller invokes reset_round
ResetRound ==
    /\ calls < MaxCalls
    /\ engine' = reset_round(engine)
    /\ last' = [op |-> "reset_round", in |-> <<>>, ret |-> <<>>]
    /\ prevLog' = passLog
    /\ passLog' = <<>>
    /\ calls' = calls + 1
    /\ UNCHANGED <<viewer, demo>>

\* a caller invokes update_kill
UpdateKill ==
    /\ calls < MaxCalls
    /\ \E k \in KillInputs :
         /\ engine' = update_kill(engine, k[1], k[2])
         /\ last' = [op |-> "update_kill", in |-> k, ret |-> <<>>]
    /\ calls' = calls + 1
    /\ UNCHANGED <<viewer, demo, passLog, prevLog>>

Next == AnalyzeDeath \/ ResetRound \/ UpdateKill

Spec == Init /\ [][Next]_vars

\* ------------------------------------------------------------------------
\* The engine with its read-only queries: the caller may also ask for the
\* rankings or the round summary between the writing calls.
\* ------------------------------------------------------------------------
\* a caller invokes get_rankings; the returned list is kept in ret.ranked
GetRankings ==
    /\ calls < MaxCalls
    /\ last' = [op |-> "get_rankings", in |-> <<>>, ret |-> [ranked |-> get_rankings(engine)]]
    /\ calls' = calls + 1
    /\ UNCHANGED <<engine, viewer, demo, passLog, prevLog>>

\* a caller invokes get_round_summary
GetRoundSummary ==
    /\ calls < MaxCalls
    /\ last' = [op |-> "get_round_summary", in |-> <<>>, ret |-> get_round_summary(engine)]
    /\ calls' = calls + 1
    /\ UNCHANGED <<engine, viewer, demo, passLog, prevLog>>

NextLedger == AnalyzeDeath \/ ResetRound \/ UpdateKill \/ GetRankings \/ GetRoundSummary

SpecLedger == Init /\ [][NextLedger]_vars

\* ------------------------------------------------------------------------
\* A round that is replayed: longer call sequences over fewer arguments
\* (one victim; a death no rule of 1-7 fires on and a traded death)
\* ------------------------------------------------------------------------
MaxReplayCalls == 5

ReplayInputs ==
    {in \in EngineInputs :
        /\ in.kill_event.victim = "v1"
        /\ in.tick = BaseTick
        /\ in.mollies = <<>>
        /\ Len(in.players) >= 2}

ReplayAnalyzeDeath ==
    /\ calls < MaxReplayCalls
    /\ \E in \in ReplayInputs :
         /\ \E r \in {analyze_death(engine, in)} :
              /\ engine' = r.engine
              /\ last' = [op |-> "analyze_death", in |-> in, ret |-> r.ret]
         /\ IF in.round_num # engine.current_round
            THEN passLog' = <<[in |-> in, ret |-> last'.ret]>> /\ prevLog' = <<>>
            ELSE passLog' = Append(passLog, [in |-> in, ret |-> last'.ret])
                 /\ prevLog' = prevLog
    /\ calls' = calls + 1
    /\ UNCHANGED <<viewer, demo>>

ReplayResetRound ==
    /\ calls < MaxReplayCalls
    /\ engine' = reset_round(engine)
    /\ last' = [op |-> "reset_round", in |-> <<>>, ret |-> <<>>]
    /\ prevLog' = passLog
    /\ passLog' = <<>>
    /\ calls' = calls + 1
    /\ UNCHANGED <<viewer, demo>>

NextReplay == ReplayAnalyzeDeath \/ ReplayResetRound

SpecReplay == Init /\ [][NextReplay]_vars

\* ------------------------------------------------------------------------
\* The viewer driving the engine
\* ------------------------------------------------------------------------
InitViewer ==
    /\ engine = NewEngine
    /\ viewer = NewViewer
    /\ demo \in Demos
    /\ last = NoCall
    /\ calls = 0
    /\ passLog = <<>>
    /\ prevLog = <<>>

\* the handler sets tick_idx to idx and calls _update
SeekTo(idx, op) ==
    /\ Len(engine.death_history) < MaxViewerDeaths
    /\ \E st \in {update([viewer |-> [viewer EXCEPT !.tick_idx = idx],
                             engine |-> engine], demo)} :
         /\ viewer' = st.viewer
         /\ engine' = st.engine
    /\ last' = [op |-> op, in |-> <<>>, ret |-> <<>>]
    /\ UNCHANGED <<demo, calls, passLog, prevLog>>

\* run: playback advances one tick
Play ==
    /\ demo.all_ticks # <<>>
    /\ SeekTo(Min2(viewer.tick_idx + 1, Len(demo.all_ticks)), "play")

\* _handle_key K_LEFT
KeyLeft ==
    /\ demo.all_ticks # <<>>
    /\ SeekTo(Max2(1, viewer.tick_idx - KEY_SEEK), "key_left")

\* _handle_key K_RIGHT
KeyRight ==
    /\ demo.all_ticks # <<>>
    /\ SeekTo(Min2(Len(demo.all_ticks), viewer.tick_idx + KEY_SEEK), "key_right")

\* _handle_key K_HOME
KeyHome ==
    /\ demo.all_ticks # <<>>
    /\ SeekTo(1, "key_home")

\* _handle_key K_END
KeyEnd ==
    /\ demo.all_ticks # <<>>
    /\ SeekTo(Len(demo.all_ticks), "key_end")

\* _handle_click on the timeline
Click ==
    /\ demo.all_ticks # <<>>
    /\ \E idx \in 1..Len(demo.all_ticks) : SeekTo(idx, "click")

\* _handle_key K_r: _next_round
NextRound ==
    /\ demo.all_ticks # <<>>
    /\ next_round_target(demo, viewer.tick_idx) # 0
    /\ SeekTo(next_round_target(demo, viewer.tick_idx), "next_round")

\* _handle_key K_e: _prev_round
PrevRound ==
    /\ demo.all_ticks # <<>>
    /\ prev_round_target(demo, viewer.tick_idx) # 0
    /\ SeekTo(prev_round_target(demo, viewer.tick_idx), "prev_round")

NextViewer ==
    \/ Play \/ KeyLeft \/ KeyRight \/ KeyHome \/ KeyEnd \/ Click
    \/ NextRound \/ PrevRound

SpecViewer == InitViewer /\ [][NextViewer]_vars

\* ------------------------------------------------------------------------
\* _check_if_traded on its own: the arguments are drawn at the start, the
\* step applies the function.
\* ------------------------------------------------------------------------
MaxRecent == 2

TradeTick == 1000
TradeKills ==
    {Kill(v, "x", "CT", "T", t, NoPos) :
        v \in {"a1", "a2"},
        t \in {TradeTick - 1, TradeTick, TradeTick + 1,
               TradeTick + TRADE_WINDOW_TICKS, TradeTick + TRADE_WINDOW_TICKS + 1}}

SeqsUpTo(S, n) == UNION {[1..m -> S] : m \in 0..n}

TradeInputs ==
    {[attacker_name |-> "a1", recent_kills |-> rk, tick |-> TradeTick] :
        rk \in SeqsUpTo(TradeKills, MaxRecent)}

InitTrade ==
    /\ engine = NewEngine
    /\ viewer = NewViewer
    /\ demo = NoDemo
    /\ \E in \in TradeInputs : last = [op |-> "trade_args", in |-> in, ret |-> <<>>]
    /\ calls = 0
    /\ passLog = <<>>
    /\ prevLog = <<>>

CheckIfTraded ==
    /\ last.op = "trade_args"
    /\ last' = [op |-> "check_if_traded", in |-> last.in,
                ret |-> check_if_traded(last.in.attacker_name,
                                        last.in.recent_kills, last.in.tick)]
    /\ UNCHANGED <<engine, viewer, demo, calls, passLog, prevLog>>

NextTrade == CheckIfTraded

SpecTrade == InitTrade /\ [][NextTrade]_vars

\* ------------------------------------------------------------------------
\* DeathAnalysis.blame_score on its own
\* ------------------------------------------------------------------------
BlameInputs ==
    {[severity |-> sev, teammate_distance_sq |-> d2, enemy_count |-> n,
      was_traded |-> tr, was_flashed |-> fl, in_utility |-> ut,
      teammate_count |-> 4 - n, mistakes |-> <<"fair_duel">>] :
        sev \in 1..5,
        d2 \in {0, Sq(BLAME_ISOLATION_DISTANCE), Sq(BLAME_ISOLATION_DISTANCE) + 1,
                Sq(NO_TEAMMATE_DISTANCE)},
        n \in 1..4, tr \in BOOLEAN, fl \in BOOLEAN, ut \in BOOLEAN}

InitBlame ==
    /\ engine = NewEngine
    /\ viewer = NewViewer
    /\ demo = NoDemo
    /\ \E in \in BlameInputs : last = [op |-> "blame_args", in |-> in, ret |-> <<>>]
    /\ calls = 0
    /\ passLog = <<>>
    /\ prevLog = <<>>

BlameScore ==
    /\ last.op = "blame_args"
    /\ last' = [op |-> "blame_score", in |-> last.in, ret |-> blame_score(last.in)]
    /\ UNCHANGED <<engine, viewer, demo, calls, passLog, prevLog>>

NextBlame == BlameScore

SpecBlame == InitBlame /\ [][NextBlame]_vars

\* ------------------------------------------------------------------------
\* The derived properties of one PlayerStats entry as pure functions: the
\* entry is drawn at the start and its four properties are read.
\* ------------------------------------------------------------------------
MaxStatKills == 3
MaxStatDeaths == 2

\* judgments as analyze_death returns them for the curated situations
StatAnalyses ==
    {analyze_death(NewEngine, AnalyzeArgs("v1", sit, 1)).ret : sit \in Situations}

\* _update_player_stats applied to each judgment of q in turn
RECURSIVE RecordAll(_, _)
RecordAll(ps, q) ==
    IF q = <<>> THEN ps ELSE RecordAll(update_player_stats(ps, Head(q)), Tail(q))

\* entries as the ledger holds them: kills credited by update_kill, one
\* death per recorded judgment
StatInputs ==
    {RecordAll(<<[NewPlayerStats("v1", "CT") EXCEPT !.kills = k]>>, q)[1] : k \in 0..MaxStatKills, q \in SeqsUpTo(StatAnalyses, MaxStatDeaths)}

InitStats ==
    /\ engine = NewEngine
    /\ viewer = NewViewer
    /\ demo = NoDemo
    /\ \E in \in StatInputs : last = [op |-> "stats_args", in |-> in, ret |-> <<>>]
    /\ calls = 0
    /\ passLog = <<>>
    /\ prevLog = <<>>

ReadStats ==
    /\ last.op = "stats_args"
    /\ last' = [op |-> "stats", in |-> last.in,
                ret |-> [kd_ratio |-> kd_ratio(last.in),
                         avg_blame |-> avg_blame(last.in),
                         performance_score |-> performance_score(last.in),
                         rank_grade |-> rank_grade(last.in)]]
    /\ UNCHANGED <<engine, viewer, demo, calls, passLog, prevLog>>

NextStats == ReadStats

SpecStats == InitStats /\ [][NextStats]_vars

\* ------------------------------------------------------------------------
\* One analyze_death call over a wide product of arguments: the event with
\* or without position and team, the snapshot put together from a layout of
\* the "CT" players, a layout of the "T" players and the victim's own entry,
\* the effects, the buffered eliminations, and an engine that has or has
\* not recorded a death in this round already.
\* ------------------------------------------------------------------------
JudgeTick == 1000

JudgeTeams == {"CT", "T", Missing}

JudgePositions == {<<0, 0>>, NoPos}

CTLayouts ==
    { <<>>,
      <<Player("m1", "CT", 300, 0, TRUE)>>,
      <<Player("m1", "CT", 400, 0, TRUE)>>,
      <<Player("m1", "CT", 900, 0, TRUE)>>,
      <<Player("m1", "CT", 901, 0, TRUE)>>,
      <<Player("m1", "CT", 1300, 0, TRUE), Player("m2", "CT", 0, 1500, TRUE)>>,
      <<Player("m1", "CT", 300, 0, TRUE), Player("m2", "CT", 0, 1500, TRUE)>>,
      <<Player("m1", "CT", 50, 0, FALSE)>>,
      <<Player("m1", "CT", 10000, 0, TRUE)>> }

TLayouts ==
    { <<>>,
      <<Player("a1", "T", 500, 0, TRUE)>>,
      <<Player("a1", "T", 0, 0, TRUE)>>,
      <<Player("a1", "T", 500, 0, TRUE), Player("a2", "T", 0, 500, TRUE)>>,
      <<Player("a1", "T", 500, 0, TRUE), Player("a2", "T", 600, 0, TRUE),
        Player("a3", "T", 700, 0, TRUE)>> }

VictimEntries == { <<>>, <<Player("v1", "CT", 100, 100, FALSE)>>, <<Player("v1", "CT", 0, 0, TRUE)>> }

JudgeFlashes == { <<>>, <<Flash(JudgeTick - FLASH_EFFECT_TICKS, 0, 700)>> }

JudgeMollies == { <<>>, <<Molly(JudgeTick - 50, JudgeTick + 50, 100, 0)>> }

JudgeRecentKills ==
    { <<>>,
      <<Kill("a1", "m1", "CT", "T", JudgeTick + 1, NoPos)>>,
      <<Kill("a2", "m1", "CT", "T", JudgeTick + 1, NoPos)>>,
      <<Kill("a1", "a2", "T", "T", JudgeTick + 1, NoPos)>>,
      <<Kill("a1", "a1", "T", "T", JudgeTick + TRADE_WINDOW_TICKS, NoPos)>> }

\* the arguments of the judged call
JudgeArgs(team, pos, ve, cts, ts, fl, mo, rk) ==
    [kill_event   |-> Kill("v1", "a1", "T", team, JudgeTick, pos),
     players      |-> ve \o cts \o ts,
     mollies      |-> mo,
     flashes      |-> fl,
     recent_kills |-> rk,
     tick         |-> JudgeTick,
     round_num    |-> 1]

JudgeInputs ==
    {JudgeArgs(team, pos, ve, cts, ts, fl, mo, rk) : team \in JudgeTeams, pos \in JudgePositions, ve \in VictimEntries, cts \in CTLayouts, ts \in TLayouts, fl \in JudgeFlashes, mo \in JudgeMollies, rk \in JudgeRecentKills}

\* the engine before the judged call: new, or after one death of round 1
JudgeEngines ==
    {NewEngine, analyze_death(NewEngine, JudgeArgs("CT", <<0, 0>>, <<>>, <<>>, <<>>, <<>>, <<>>, <<>>)).engine}

InitJudge ==
    /\ engine \in JudgeEngines
    /\ viewer = NewViewer
    /\ demo = NoDemo
    /\ \E in \in JudgeInputs : last = [op |-> "judge_args", in |-> in, ret |-> <<>>]
    /\ calls = 0
    /\ passLog = <<>>
    /\ prevLog = <<>>

\* the judged analyze_death call
JudgeDeath ==
    /\ last.op = "judge_args"
    /\ \E r \in {analyze_death(engine, last.in)} :
         /\ engine' = r.engine
         /\ last' = [op |-> "analyze_death", in |-> last.in, ret |-> r.ret]
    /\ calls' = calls + 1
    /\ UNCHANGED <<viewer, demo, passLog, prevLog>>

NextJudge == JudgeDeath

SpecJudge == InitJudge /\ [][NextJudge]_vars

\* ------------------------------------------------------------------------
\* _was_victim_flashed and _in_molotov as pure functions: the victim stands
\* at the origin, the effects lie around the window ends and the radius.
\* ------------------------------------------------------------------------
MaxFlashes == 2
FlashTick == 1000

FlashStarts == {FlashTick - 100, FlashTick - 97, FlashTick - 96, FlashTick - 50, FlashTick, FlashTick + 1}

FlashSpots == {<<100, 0>>, <<799, 0>>, <<800, 0>>, <<480, 640>>, <<801, 0>>}

FlashEffects == {Flash(st, sp[1], sp[2]) : st \in FlashStarts, sp \in FlashSpots}

FlashInputs == SeqsUpTo(FlashEffects, MaxFlashes)

InitFlash ==
    /\ engine = NewEngine
    /\ viewer = NewViewer
    /\ demo = NoDemo
    /\ \E in \in FlashInputs : last = [op |-> "flash_args", in |-> in, ret |-> <<>>]
    /\ calls = 0
    /\ passLog = <<>>
    /\ prevLog = <<>>

WasVictimFlashed ==
    /\ last.op = "flash_args"
    /\ last' = [op |-> "was_victim_flashed", in |-> last.in, ret |-> was_victim_flashed(<<0, 0>>, last.in, FlashTick)]
    /\ UNCHANGED <<engine, viewer, demo, calls, passLog, prevLog>>

NextFlash == WasVictimFlashed

SpecFlash == InitFlash /\ [][NextFlash]_vars

MaxMollies == 2
MollyTick == 1000

MollySpans == {<<MollyTick - 100, MollyTick + 100>>, <<MollyTick, MollyTick + 100>>, <<MollyTick - 100, MollyTick>>, <<MollyTick + 1, MollyTick + 100>>, <<MollyTick - 200, MollyTick - 1>>}

MollySpots == {<<0, 0>>, <<179, 0>>, <<180, 0>>, <<108, 144>>, <<181, 0>>}

MollyEffects == {Molly(sp[1], sp[2], at[1], at[2]) : sp \in MollySpans, at \in MollySpots}

MollyInputs == SeqsUpTo(MollyEffects, MaxMollies)

InitMolly ==
    /\ engine = NewEngine
    /\ viewer = NewViewer
    /\ demo = NoDemo
    /\ \E in \in MollyInputs : last = [op |-> "molly_args", in |-> in, ret |-> <<>>]
    /\ calls = 0
    /\ passLog = <<>>
    /\ prevLog = <<>>

InMolotov ==
    /\ last.op = "molly_args"
    /\ last' = [op |-> "in_molotov", in |-> last.in, ret |-> in_molotov(<<0, 0>>, last.in, MollyTick)]
    /\ UNCHANGED <<engine, viewer, demo, calls, passLog, prevLog>>

NextMolly == InMolotov

SpecMolly == InitMolly /\ [][NextMolly]_vars

\* ------------------------------------------------------------------------
\* _count_enemy_angles as a pure function: the victim stands at the origin,
\* the hostiles on the four axes, on a diagonal, twice on one bearing, or
\* on the victim's own spot.
\* ------------------------------------------------------------------------
MaxEnemies == 4

EnemySpots == {<<0, 0>>, <<100, 0>>, <<200, 0>>, <<0, 100>>, <<-100, 0>>, <<0, -100>>, <<100, 100>>}

AngleEnemies == {Player("a", "T", sp[1], sp[2], TRUE) : sp \in EnemySpots}

AngleInputs == SeqsUpTo(AngleEnemies, MaxEnemies)

InitAngles ==
    /\ engine = NewEngine
    /\ viewer = NewViewer
    /\ demo = NoDemo
    /\ \E in \in AngleInputs : last = [op |-> "angle_args", in |-> in, ret |-> <<>>]
    /\ calls = 0
    /\ passLog = <<>>
    /\ prevLog = <<>>

CountEnemyAngles ==
    /\ last.op = "angle_args"
    /\ last' = [op |-> "count_enemy_angles", in |-> last.in, ret |-> count_enemy_angles(<<0, 0>>, last.in)]
    /\ UNCHANGED <<engine, viewer, demo, calls, passLog, prevLog>>

NextAngles == CountEnemyAngles

SpecAngles == InitAngles /\ [][NextAngles]_vars

\* ------------------------------------------------------------------------
\* primary_mistake as a pure function of the tag list: every list of up to
\* MaxTags tags of MistakeType, the empty list and lists with repeated tags
\* included.
\* ------------------------------------------------------------------------
MaxTags == 3

TagLists == SeqsUpTo(MistakeType, MaxTags)

InitPrimary ==
    /\ engine = NewEngine
    /\ viewer = NewViewer
    /\ demo = NoDemo
    /\ \E ms \in TagLists : last = [op |-> "primary_args", in |-> [mistakes |-> ms], ret |-> <<>>]
    /\ calls = 0
    /\ passLog = <<>>
    /\ prevLog = <<>>

PrimaryMistake ==
    /\ last.op = "primary_args"
    /\ last' = [op |-> "primary_mistake", in |-> last.in, ret |-> [primary |-> primary_mistake(last.in)]]
    /\ UNCHANGED <<engine, viewer, demo, calls, passLog, prevLog>>

NextPrimary == PrimaryMistake

SpecPrimary == InitPrimary /\ [][NextPrimary]_vars

\* ------------------------------------------------------------------------
\* Properties
\* ------------------------------------------------------------------------
RECURSIVE SumFun(_, _)
SumFun(f, S) ==
    IF S = {} THEN 0
    ELSE LET x == CHOOSE y \in S : TRUE IN f[x] + SumFun(f, S \ {x})

DeathsOf(ps) == [i \in 1..Len(ps) |-> ps[i].deaths]

\* C1: every DeathAnalysis returned by analyze_death, and every one recorded
\* before it, has a blame score in 0..100, a severity in 1..5 and at least
\* one mistake tag.
C1_JudgmentBounds ==
    /\ last.op = "analyze_death" =>
          /\ blame_score(last.ret) \in 0..100
          /\ last.ret.severity \in 1..5
          /\ Len(last.ret.mistakes) >= 1
    /\ \A i \in 1..Len(engine.death_history) :
          /\ blame_score(engine.death_history[i]) \in 0..100
          /\ engine.death_history[i].severity \in 1..5
          /\ Len(engine.death_history[i].mistakes) >= 1

\* a traded death of severity 1 judged after earlier calls: blame clamps at 0
C1_Witness ==
    /\ last.op = "analyze_death"
    /\ calls >= 2
    /\ last.ret.was_traded
    /\ last.ret.severity = 1
    /\ blame_score(last.ret) = 0

\* the ledger agrees with the judgments it holds
LedgerConsistent(e) ==
    /\ \A i \in 1..Len(e.player_stats) :
          LET st == e.player_stats[i] IN
          /\ st.deaths = Len(st.death_analyses)
          /\ st.total_blame = SumSeq(BlameOf(st.death_analyses))
          /\ SumFun(st.mistake_counts, DOMAIN st.mistake_counts) = st.deaths
    /\ Len(e.death_history) = SumSeq(DeathsOf(e.player_stats))

\* the entry of name in the ledger ps, a new entry when there is none
EntryOf(ps, name, team) ==
    IF HasPlayer(ps, name) THEN ps[IndexOf(ps, name)] ELSE NewPlayerStats(name, team)

CountOf(mc, key) == IF key \in DOMAIN mc THEN mc[key] ELSE 0

\* C3: each analyze_death call appends the returned judgment once to
\* death_history, to round_deaths and to the victim's entry, adds 1 to the
\* victim's deaths, the blame to total_blame and 1 to the count of the
\* primary tag; so the ledger stays consistent with the judgments it holds.
C3_RecordedOnce ==
    [][ /\ last'.op = "analyze_death" =>
             LET j   == last'.ret
                 old == EntryOf(engine.player_stats, j.victim_name, j.victim_team)
                 new == EntryOf(engine'.player_stats, j.victim_name, j.victim_team)
             IN  /\ engine'.death_history = Append(engine.death_history, j)
                 /\ Len(engine'.round_deaths) >= 1
                 /\ engine'.round_deaths[Len(engine'.round_deaths)] = j
                 /\ HasPlayer(engine'.player_stats, j.victim_name)
                 /\ new.death_analyses = Append(old.death_analyses, j)
                 /\ new.deaths = old.deaths + 1
                 /\ new.total_blame = old.total_blame + blame_score(j)
                 /\ CountOf(new.mistake_counts, primary_mistake(j))
                        = CountOf(old.mistake_counts, primary_mistake(j)) + 1
        /\ LedgerConsistent(engine') ]_vars

\* a victim with two recorded judgments and another victim with one
C3_Witness ==
    /\ last.op = "analyze_death"
    /\ Len(engine.death_history) = 3
    /\ \E i \in 1..Len(engine.player_stats) : engine.player_stats[i].deaths = 2
    /\ \E i \in 1..Len(engine.player_stats) :
          engine.player_stats[i].deaths = 1 /\ engine.player_stats[i].kills = 0

\* player_stats before the call survives it: every entry that existed is
\* still there and differs at most by the one judgment recorded for the victim
LedgerKept(ps, ps2, j) ==
    /\ Len(ps2) >= Len(ps)
    /\ \A i \in 1..Len(ps) :
          /\ ps2[i].name = ps[i].name
          /\ ps2[i].team = ps[i].team
          /\ ps2[i].kills = ps[i].kills
          /\ IF ps[i].name = j.victim_name
             THEN ps2[i].death_analyses = Append(ps[i].death_analyses, j)
             ELSE ps2[i] = ps[i]

\* C4: in analyze_death a round number different from current_round sets the
\* death-order counter to 0 and empties round_deaths and round_kills before
\* the event is judged (the event gets order 1); the same round number
\* resets nothing (the order counts on); neither case removes anything from
\* player_stats or death_history.
C4_RoundTransition ==
    [][ last'.op = "analyze_death" =>
          LET in == last'.in
              j  == last'.ret
          IN  /\ IF in.round_num # engine.current_round
                 THEN /\ engine'.current_round = in.round_num
                      /\ engine'.round_death_order = 1
                      /\ engine'.round_deaths = <<j>>
                      /\ engine'.round_kills = in.recent_kills
                 ELSE /\ engine'.current_round = engine.current_round
                      /\ engine'.round_death_order = engine.round_death_order + 1
                      /\ engine'.round_deaths = Append(engine.round_deaths, j)
                      /\ engine'.round_kills = engine.round_kills \o in.recent_kills
              /\ engine'.death_history = Append(engine.death_history, j)
              /\ LedgerKept(engine.player_stats, engine'.player_stats, j) ]_vars

\* a round change after two deaths of the round before
C4_Witness ==
    /\ last.op = "analyze_death"
    /\ Len(engine.death_history) = 3
    /\ engine.death_history[1].round_num = engine.death_history[2].round_num
    /\ engine.death_history[2].round_num # engine.current_round
    /\ engine.round_death_order = 1
    /\ Len(engine.round_deaths) = 1

\* C5: reset_round sets the death-order counter to 0 and empties
\* round_deaths, leaves player_stats and death_history as they were, and a
\* second reset_round changes nothing more.
C5_ResetRound ==
    [][ last'.op = "reset_round" =>
          /\ engine'.round_death_order = 0
          /\ engine'.round_deaths = <<>>
          /\ engine'.player_stats = engine.player_stats
          /\ engine'.death_history = engine.death_history
          /\ engine'.current_round = engine.current_round
          /\ reset_round(engine') = engine' ]_vars

\* a reset after judgments of the round and a kill were recorded
C5_Witness ==
    /\ last.op = "reset_round"
    /\ prevLog # <<>>
    /\ Len(engine.death_history) >= 1
    /\ \E i \in 1..Len(engine.player_stats) : engine.player_stats[i].kills >= 1

\* C6: after reset_round the recent-eliminations buffer round_kills is empty.
C6_ResetEmptiesRoundKills ==
    last.op = "reset_round" => engine.round_kills = <<>>

\* C7: when the analyze_death calls of the round are issued again after
\* reset_round with the same arguments, each returns the judgment it
\* returned in the first pass.
C7_ReplayDeterministic ==
    \A i \in 1..Min2(Len(passLog), Len(prevLog)) :
        (\A k \in 1..i : passLog[k].in = prevLog[k].in)
            => passLog[i].ret = prevLog[i].ret

\* two deaths of the round are replayed: the first is FIRST_CONTACT and the
\* second FAIR_DUEL, as in the first pass
C7_Witness ==
    /\ Len(prevLog) >= 2
    /\ Len(passLog) >= 2
    /\ passLog[1].in = prevLog[1].in
    /\ passLog[2].in = prevLog[2].in
    /\ passLog[1].ret.mistakes = <<"first">>
    /\ passLog[2].ret.mistakes = <<"fair_duel">>

\* ------------------------------------------------------------------------
\* Properties of the viewer
\* ------------------------------------------------------------------------
\* the eliminations of the demo that the engine has judged
Processed ==
    {i \in 1..Len(demo.kills) :
        \E n \in 1..Len(engine.death_history) :
            /\ engine.death_history[n].tick = demo.kills[i].tick
            /\ engine.death_history[n].victim_name = demo.kills[i].victim}

\* C2: every elimination the viewer has processed contributes exactly one
\* judgment (one death) to the victim's entry and one kill to the attacker's.
C2_OneJudgmentPerElimination ==
    \A n \in 1..Len(engine.player_stats) :
        LET st == engine.player_stats[n] IN
        /\ st.deaths = Cardinality({i \in Processed : demo.kills[i].victim = st.name})
        /\ st.kills = Cardinality({i \in Processed : demo.kills[i].attacker = st.name})

\* C8: once the viewer has processed, in tick order, the elimination of a
\* victim's killer that falls 1..192 ticks after the victim's death in the
\* same round, the victim's judgment has was_traded and the tag TRADED.
C8_TradedInViewer ==
    \A n \in 1..Len(engine.death_history) :
        LET j == engine.death_history[n] IN
        (\E m \in 1..Len(engine.death_history) :
            /\ engine.death_history[m].victim_name = j.attacker_name
            /\ engine.death_history[m].round_num = j.round_num
            /\ j.tick < engine.death_history[m].tick
            /\ engine.death_history[m].tick <= j.tick + TRADE_WINDOW_TICKS)
        => (j.was_traded /\ "traded" \in Range(j.mistakes))

\* ------------------------------------------------------------------------
\* Properties of the functions on their own
\* ------------------------------------------------------------------------
\* C9: _check_if_traded is true exactly when recent_kills holds an
\* elimination of the attacker at a tick k with tick < k <= tick + 192.
C9_TradeWindow ==
    last.op = "check_if_traded" =>
        (last.ret <=>
            \E i \in 1..Len(last.in.recent_kills) :
                /\ last.in.recent_kills[i].victim = last.in.attacker_name
                /\ last.in.recent_kills[i].tick \in
                      (last.in.tick + 1)..(last.in.tick + 192))

\* the attacker dies at the last tick of the window, after an elimination of
\* another player inside the window
C9_Witness ==
    /\ last.op = "check_if_traded"
    /\ last.ret = TRUE
    /\ Len(last.in.recent_kills) = 2
    /\ last.in.recent_kills[1].victim # last.in.attacker_name
    /\ last.in.recent_kills[2].victim = last.in.attacker_name
    /\ last.in.recent_kills[2].tick = last.in.tick + 192

Clamp(x, lo, hi) == IF x < lo THEN lo ELSE IF x > hi THEN hi ELSE x

\* C10: blame_score is clamp(severity*20 + 10 [distance > 1000]
\* - 10 [enemy_count >= 3] - 15 [traded] - 5 [flashed], 0, 100), whatever the
\* other fields of the judgment are.
C10_BlameFormula ==
    last.op = "blame_score" =>
        last.ret = Clamp(last.in.severity * 20
                         + (IF last.in.teammate_distance_sq > 1000 * 1000 THEN 10 ELSE 0)
                         - (IF last.in.enemy_count >= 3 THEN 10 ELSE 0)
                         - (IF last.in.was_traded THEN 15 ELSE 0)
                         - (IF last.in.was_flashed THEN 5 ELSE 0), 0, 100)

\* severity 1 with the three discounts, at distance exactly 1000: clamps to 0
C10_Witness ==
    /\ last.op = "blame_score"
    /\ last.in.severity = 1
    /\ last.in.teammate_distance_sq = 1000 * 1000
    /\ last.in.enemy_count >= 3 /\ last.in.was_traded /\ last.in.was_flashed
    /\ last.ret = 0

\* ------------------------------------------------------------------------
\* C11: update_kill adds exactly one to the attacker's kills, creating the
\* entry (kills 0, deaths 0, no judgments) when the name is new; the
\* attacker's deaths, blame, counts and judgments, every other entry, the
\* death history and all round-scoped state stay as they were.
C11_UpdateKill ==
    [][last'.op = "update_kill" =>
        LET name == last'.in[1]
            team == last'.in[2]
            ps   == engine.player_stats
            ps2  == engine'.player_stats
        IN  /\ [engine' EXCEPT !.player_stats = ps] = engine
            /\ IF HasPlayer(ps, name)
               THEN /\ Len(ps2) = Len(ps)
                    /\ \A i \in 1..Len(ps) :
                          IF ps[i].name = name
                          THEN ps2[i] = [ps[i] EXCEPT !.kills = ps[i].kills + 1]
                          ELSE ps2[i] = ps[i]
               ELSE /\ Len(ps2) = Len(ps) + 1
                    /\ SubSeq(ps2, 1, Len(ps)) = ps
                    /\ ps2[Len(ps2)].name = name
                    /\ ps2[Len(ps2)].team = team
                    /\ ps2[Len(ps2)].kills = 1
                    /\ ps2[Len(ps2)].deaths = 0
                    /\ ps2[Len(ps2)].total_blame = 0
                    /\ ps2[Len(ps2)].mistake_counts = <<>>
                    /\ ps2[Len(ps2)].death_analyses = <<>>]_vars

\* a kill credited to a player who already has a death and a judgment on
\* the ledger, next to another entry
C11_Witness ==
    /\ last.op = "update_kill"
    /\ Len(engine.player_stats) >= 2
    /\ \E i \in 1..Len(engine.player_stats) :
         /\ engine.player_stats[i].name = last.in[1]
         /\ engine.player_stats[i].kills >= 1
         /\ engine.player_stats[i].deaths >= 1
         /\ engine.player_stats[i].death_analyses # <<>>

\* C12: get_rankings returns every ledger entry exactly once, ordered by
\* non-increasing performance score, entries of equal score in the order in
\* which they were first put on the ledger; the engine is left as it was.
C12_Rankings ==
    [][last'.op = "get_rankings" =>
        LET ps  == engine.player_stats
            ret == last'.ret.ranked
        IN  /\ engine' = engine
            /\ Len(ret) = Len(ps)
            /\ \A i \in 1..Len(ps) : Cardinality({j \in 1..Len(ret) : ret[j] = ps[i]}) = 1
            /\ \A i, j \in 1..Len(ret) :
                  i < j => /\ FracLeq(performance_score(ret[j]), performance_score(ret[i]))
                           /\ FracEq(performance_score(ret[j]), performance_score(ret[i]))
                                => IndexOf(ps, ret[i].name) < IndexOf(ps, ret[j].name)]_vars

\* rankings asked of a ledger on which two entries have the same score
C12_Witness ==
    /\ last.op = "get_rankings"
    /\ Len(last.ret.ranked) = Len(engine.player_stats)
    /\ \E i, j \in 1..Len(last.ret.ranked) :
         /\ i < j
         /\ FracEq(performance_score(last.ret.ranked[i]), performance_score(last.ret.ranked[j]))

\* the scores the entries of StatInputs have
StatScores == {performance_score(p) : p \in StatInputs}

\* S is the best grade, F the worst
GradeRank(g) ==
    CASE g = "S" -> 5 [] g = "A" -> 4 [] g = "B" -> 3 [] g = "C" -> 2 [] g = "D" -> 1 [] g = "F" -> 0

\* x = num/den lies in [lo, hi)
FracIn(x, lo, hi) == lo * x.den <= x.num /\ x.num < hi * x.den

\* C13: kd_ratio is kills / max(1, deaths); avg_blame is the mean blame of
\* the entry's judgments, 0 when it has none; performance_score is
\* max(0, kd * 40 - avg_blame * 0.4 + 20) and is never negative; rank_grade
\* is S from 80, A from 65, B from 50, C from 35, D from 20 and F below;
\* an entry whose score is not higher never has the better grade.
C13_DerivedStats ==
    last.op = "stats" =>
        LET p  == last.in
            kd == last.ret.kd_ratio
            ab == last.ret.avg_blame
            ps == last.ret.performance_score
            g  == last.ret.rank_grade
            n  == Len(p.death_analyses)
            X  == 200 * kd.num * ab.den - 2 * ab.num * kd.den + 100 * kd.den * ab.den
            D  == 5 * kd.den * ab.den
        IN  /\ kd.den > 0 /\ ab.den > 0 /\ ps.den > 0
            /\ kd.num * (IF p.deaths > 1 THEN p.deaths ELSE 1) = p.kills * kd.den
            /\ IF n = 0 THEN ab.num = 0
               ELSE ab.num * n = SumSeq(BlameOf(p.death_analyses)) * ab.den
            /\ IF X >= 0 THEN ps.num * D = X * ps.den ELSE ps.num = 0
            /\ ps.num >= 0
            /\ g = "S" <=> 80 * ps.den <= ps.num
            /\ g = "A" <=> FracIn(ps, 65, 80)
            /\ g = "B" <=> FracIn(ps, 50, 65)
            /\ g = "C" <=> FracIn(ps, 35, 50)
            /\ g = "D" <=> FracIn(ps, 20, 35)
            /\ g = "F" <=> ps.num < 20 * ps.den
            /\ \A s \in StatScores : FracLeq(s, ps) => GradeRank(GradeOf(s)) <= GradeRank(g)

\* an entry without kills whose mean blame is above 50: the raw score is
\* negative and the clamp decides
C13_Witness ==
    /\ last.op = "stats"
    /\ last.in.kills = 0
    /\ last.in.deaths = 2
    /\ last.ret.avg_blame.num > 50 * last.ret.avg_blame.den
    /\ last.ret.performance_score.num = 0
    /\ last.ret.rank_grade = "F"

\* q continues p: p is the beginning of q
IsPrefix(p, q) == Len(p) <= Len(q) /\ SubSeq(q, 1, Len(p)) = p

\* C14: whatever the engine is asked next (analyze_death in any round,
\* update_kill, reset_round, get_rankings, get_round_summary), every
\* judgment already in death_history and in an entry's list stays there
\* unchanged, no entry leaves the ledger, and no entry's kills or deaths
\* go down.
C14_LedgerOnlyGrows ==
    [][/\ IsPrefix(engine.death_history, engine'.death_history)
       /\ Len(engine.player_stats) <= Len(engine'.player_stats)
       /\ \A i \in 1..Len(engine.player_stats) :
             /\ engine'.player_stats[i].name = engine.player_stats[i].name
             /\ engine'.player_stats[i].kills >= engine.player_stats[i].kills
             /\ engine'.player_stats[i].deaths >= engine.player_stats[i].deaths
             /\ IsPrefix(engine.player_stats[i].death_analyses, engine'.player_stats[i].death_analyses)]_vars

\* a judgment of an earlier round is still first in the history and in its
\* victim's entry after a death of another round and a reset_round
C14_Witness ==
    /\ last.op = "reset_round"
    /\ Len(engine.death_history) = 2
    /\ engine.death_history[1].round_num # engine.death_history[2].round_num
    /\ \E i \in 1..Len(engine.player_stats) :
         /\ engine.player_stats[i].death_analyses # <<>>
         /\ engine.player_stats[i].death_analyses[1] = engine.death_history[1]

\* C15: analyze_death judges and records degraded inputs: without a victim
\* position and without the victim in the snapshot the judgment is placed
\* at (0,0); without a victim team the team is "CT"; with an empty snapshot
\* teammate_count is 0, the isolation distance is the sentinel 9999 and
\* ISOLATED is among the tags.
C15_DegradedInputs ==
    last.op = "analyze_death" =>
        LET ev == last.in.kill_event
            r  == last.ret
            ps == engine.player_stats
        IN  /\ engine.death_history # <<>>
            /\ engine.death_history[Len(engine.death_history)] = r
            /\ engine.round_deaths[Len(engine.round_deaths)] = r
            /\ HasPlayer(ps, r.victim_name)
            /\ ps[IndexOf(ps, r.victim_name)].death_analyses[Len(ps[IndexOf(ps, r.victim_name)].death_analyses)] = r
            /\ (ev.victim_pos = NoPos /\ \A i \in 1..Len(last.in.players) : last.in.players[i].name # ev.victim)
                  => r.position = <<0, 0>>
            /\ ev.victim_team = Missing => r.victim_team = "CT"
            /\ last.in.players = <<>>
                  => /\ r.teammate_count = 0
                     /\ r.teammate_distance_sq = Sq(9999)
                     /\ "isolated" \in Range(r.mistakes)

\* an event without position and team judged against an empty snapshot
C15_Witness ==
    /\ last.op = "analyze_death"
    /\ last.in.kill_event.victim_pos = NoPos
    /\ last.in.kill_event.victim_team = Missing
    /\ last.in.players = <<>>
    /\ last.ret.position = <<0, 0>>
    /\ last.ret.victim_team = "CT"
    /\ last.ret.mistakes[1] = "isolated"
    /\ Len(engine.death_history) = 2

\* C16: _was_victim_flashed is true exactly when some blind effect has
\* start <= tick <= start + 96 and lies strictly closer than 800 to the
\* victim; an effect popped 50 ticks before the tick exposes, one popped 100
\* ticks before or 1 tick after does not, and none does from 800 on.
C16_FlashWindow ==
    last.op = "was_victim_flashed" =>
        /\ last.ret <=> \E i \in 1..Len(last.in) :
                           /\ last.in[i].start <= FlashTick
                           /\ FlashTick <= last.in[i].start + 96
                           /\ last.in[i].x * last.in[i].x + last.in[i].y * last.in[i].y < 800 * 800
        /\ last.in = <<Flash(FlashTick - 50, 100, 0)>> => last.ret
        /\ last.in = <<Flash(FlashTick - 100, 100, 0)>> => ~last.ret
        /\ last.in = <<Flash(FlashTick + 1, 100, 0)>> => ~last.ret
        /\ last.in = <<Flash(FlashTick - 50, 800, 0)>> => ~last.ret
        /\ last.in = <<Flash(FlashTick - 50, 480, 640)>> => ~last.ret

\* an expired effect first, then one popped exactly 96 ticks ago at 799
C16_Witness ==
    /\ last.op = "was_victim_flashed"
    /\ last.in = <<Flash(FlashTick - 97, 100, 0), Flash(FlashTick - 96, 799, 0)>>
    /\ last.ret

\* C17: _in_molotov is true exactly when some fire effect has
\* start <= tick <= end, both ends included, and lies strictly closer than
\* 180 to the victim; 179 is in the fire, 181 is not, and a tick before the
\* start or after the end is never in it.
C17_MolotovWindow ==
    last.op = "in_molotov" =>
        /\ last.ret <=> \E i \in 1..Len(last.in) :
                           /\ last.in[i].start <= MollyTick
                           /\ MollyTick <= last.in[i].end
                           /\ last.in[i].x * last.in[i].x + last.in[i].y * last.in[i].y < 180 * 180
        /\ last.in = <<Molly(MollyTick - 100, MollyTick + 100, 179, 0)>> => last.ret
        /\ last.in = <<Molly(MollyTick - 100, MollyTick + 100, 181, 0)>> => ~last.ret
        /\ last.in = <<Molly(MollyTick + 1, MollyTick + 100, 0, 0)>> => ~last.ret
        /\ last.in = <<Molly(MollyTick - 200, MollyTick - 1, 0, 0)>> => ~last.ret

\* a fire that is over first, then one that ends at this very tick at 179
C17_Witness ==
    /\ last.op = "in_molotov"
    /\ last.in = <<Molly(MollyTick - 200, MollyTick - 1, 0, 0), Molly(MollyTick - 100, MollyTick, 179, 0)>>
    /\ last.ret

\* the sectors occupied by the hostiles that are not on the victim's spot
OccupiedSectors(enemies) ==
    {Sector(enemies[i].x, enemies[i].y) : i \in {j \in 1..Len(enemies) : enemies[j].x # 0 \/ enemies[j].y # 0}}

\* C18: _count_enemy_angles returns the number of distinct 45-degree
\* sectors occupied by the bearings from the victim to the hostiles, for
\* every list, those of length 0 and 1 included; a hostile on the victim's
\* own position occupies no sector; one bearing counts once, hostiles at 0
\* and 90 degrees count 2, at 0/90/180/270 degrees 4.
C18_SectorCount ==
    last.op = "count_enemy_angles" =>
        /\ last.ret = Cardinality(OccupiedSectors(last.in))
        /\ last.in = <<Player("a", "T", 100, 0, TRUE), Player("a", "T", 200, 0, TRUE)>> => last.ret = 1
        /\ last.in = <<Player("a", "T", 100, 0, TRUE), Player("a", "T", 0, 100, TRUE)>> => last.ret = 2
        /\ last.in = <<Player("a", "T", 100, 0, TRUE), Player("a", "T", 0, 100, TRUE), Player("a", "T", -100, 0, TRUE), Player("a", "T", 0, -100, TRUE)>> => last.ret = 4

\* the facts analyze_death derives from the arguments of a call
FactsOfCall(in) ==
    FactsOf(in.kill_event, in.players, in.mollies, in.flashes, in.recent_kills, in.tick, GetOr(in.kill_event.victim, "?"), GetOr(in.kill_event.victim_team, "CT"))

\* the severity each tag's rule raises to
Tier(tag) ==
    CASE tag \in {"isolated", "crossfire", "solo_push"} -> 5
      [] tag = "no_trade" -> 4
      [] tag \in {"flashed", "in_molly", "outnumbered"} -> 3
      [] tag = "first" -> 2
      [] tag \in {"clutch", "fair_duel", "traded"} -> 1

\* the highest tier among the tags of the set S, 1 when S is empty
MaxTier(S) == IF S = {} THEN 1 ELSE CHOOSE m \in 1..5 : (\E t \in S : Tier(t) = m) /\ (\A t \in S : Tier(t) <= m)

\* one rule step from a to b: nothing raised and the severity kept, or
\* TRADED raised and the severity one lower but at least 1, or another tag
\* raised and the severity the larger of the old one and the tag's tier
StepKeepsMax(a, b) ==
    IF b.mistakes = a.mistakes
    THEN b.severity = a.severity
    ELSE /\ Len(b.mistakes) = Len(a.mistakes) + 1
         /\ SubSeq(b.mistakes, 1, Len(a.mistakes)) = a.mistakes
         /\ IF b.mistakes[Len(b.mistakes)] = "traded"
            THEN b.severity = (IF a.severity > 1 THEN a.severity - 1 ELSE 1)
            ELSE /\ b.severity >= a.severity
                 /\ b.severity >= Tier(b.mistakes[Len(b.mistakes)])
                 /\ b.severity \in {a.severity, Tier(b.mistakes[Len(b.mistakes)])}

\* C19: within one analyze_death pass the severity starts at 1 and is the
\* running maximum over the raised rules in their order; no step lowers it
\* except the TRADED step, which takes off exactly 1 and stops at 1; so a
\* judgment without TRADED has the highest tier among its tags as severity.
C19_RunningMaximum ==
    last.op = "analyze_death" =>
        /\ StateAfter(0, FactsOfCall(last.in), engine.round_death_order).severity = 1
        /\ \A k \in 1..9 : StepKeepsMax(StateAfter(k - 1, FactsOfCall(last.in), engine.round_death_order), StateAfter(k, FactsOfCall(last.in), engine.round_death_order))
        /\ StateAfter(9, FactsOfCall(last.in), engine.round_death_order).mistakes = last.ret.mistakes
        /\ StateAfter(9, FactsOfCall(last.in), engine.round_death_order).severity = last.ret.severity
        /\ "traded" \notin Range(last.ret.mistakes) => last.ret.severity = MaxTier(Range(last.ret.mistakes))

\* a pass in which rules of tier 3 and 4 are raised after one of tier 5
C19_Witness ==
    /\ last.op = "analyze_death"
    /\ last.ret.mistakes = <<"crossfire", "flashed", "in_molly", "no_trade">>
    /\ last.ret.severity = 5

\* the place of TRADED in a tag list that contains it
TradedAt(mistakes) == CHOOSE i \in 1..Len(mistakes) : mistakes[i] = "traded"

\* the tags raised before and after the TRADED step
TagsBeforeTraded(mistakes) == {mistakes[i] : i \in 1..(TradedAt(mistakes) - 1)}
TagsAfterTraded(mistakes) == {mistakes[i] : i \in (TradedAt(mistakes) + 1)..Len(mistakes)}

\* max(1, m - 1)
OneBelow(m) == IF m > 1 THEN m - 1 ELSE 1

\* C20: every judgment whose tags contain TRADED has the final severity
\* max(1, m - 1), m being the highest tier among its other tags (1 when
\* TRADED is the only tag), also when OUTNUMBERED or CLUTCH_ATTEMPT is
\* raised after the trade step.
C20_TradedSeverity ==
    (last.op = "analyze_death" /\ "traded" \in Range(last.ret.mistakes)) =>
        last.ret.severity = OneBelow(MaxTier(Range(last.ret.mistakes) \ {"traded"}))

\* C20 as amended: every judgment whose tags contain TRADED has the final
\* severity max(1, m - 1), m being the highest tier among the tags raised
\* before the trade step (1 when there is none); when OUTNUMBERED is raised
\* after the trade step the final severity is the larger of that value and
\* 3; CLUTCH_ATTEMPT raised after the trade step leaves it as it is.
C20_TradedSeverityAmended ==
    (last.op = "analyze_death" /\ "traded" \in Range(last.ret.mistakes)) =>
        /\ TagsAfterTraded(last.ret.mistakes) \subseteq {"outnumbered", "clutch"}
        /\ last.ret.severity =
             IF "outnumbered" \in TagsAfterTraded(last.ret.mistakes)
             THEN Max2(3, OneBelow(MaxTier(TagsBeforeTraded(last.ret.mistakes))))
             ELSE OneBelow(MaxTier(TagsBeforeTraded(last.ret.mistakes)))

\* a traded death of a blinded victim who was also outnumbered: the trade
\* takes the severity from 3 to 2 and OUTNUMBERED puts it back to 3
C20_Witness ==
    /\ last.op = "analyze_death"
    /\ last.ret.mistakes = <<"flashed", "traded", "outnumbered">>
    /\ last.ret.severity = 3

\* the buffered eliminations that take out attacker within the trade window
\* of tick and are the work of team
TradesBy(recent_kills, attacker, tick, team) ==
    {i \in 1..Len(recent_kills) : /\ recent_kills[i].victim = attacker
                                  /\ tick < recent_kills[i].tick
                                  /\ recent_kills[i].tick <= tick + 192
                                  /\ recent_kills[i].attacker_team = team}

\* C21: a death is traded only when the original attacker is eliminated
\* by a member of the victim's team within the trade window; the attacker
\* falling to an own teammate or to themselves within 192 ticks neither
\* sets was_traded nor raises TRADED.
C21_TradedByVictimTeam ==
    last.op = "analyze_death" =>
        /\ last.ret.was_traded => TradesBy(last.in.recent_kills, last.ret.attacker_name, last.in.tick, last.ret.victim_team) # {}
        /\ "traded" \in Range(last.ret.mistakes) => TradesBy(last.in.recent_kills, last.ret.attacker_name, last.in.tick, last.ret.victim_team) # {}

\* the entries of the snapshot that are living members of team other than
\* the player name
LivingMates(players, team, name) ==
    {i \in 1..Len(players) : players[i].team = team /\ players[i].name # name /\ players[i].alive}

\* the squared distance from pos to entry i of the snapshot
SqDistTo(players, i, pos) ==
    (players[i].x - pos[1]) * (players[i].x - pos[1]) + (players[i].y - pos[2]) * (players[i].y - pos[2])

\* C22: ISOLATED is among the tags exactly when the isolation distance is
\* above 900, the isolation distance being the distance to the nearest
\* living member of the victim's team other than the victim, or 9999 when
\* there is none: a nearest teammate at exactly 900 does not raise
\* ISOLATED, a victim without living teammate always gets it.
C22_IsolatedRule ==
    last.op = "analyze_death" =>
        LET ps    == last.in.players
            r     == last.ret
            mates == LivingMates(ps, r.victim_team, r.victim_name)
        IN  /\ "isolated" \in Range(r.mistakes)
                  <=> \A i \in mates : SqDistTo(ps, i, r.position) > 900 * 900
            /\ "isolated" \in Range(r.mistakes) <=> r.teammate_distance_sq > 900 * 900
            /\ mates = {} => r.teammate_distance_sq = 9999 * 9999
            /\ (\E i \in mates : SqDistTo(ps, i, r.position) <= 9999 * 9999)
                  => /\ \E i \in mates : SqDistTo(ps, i, r.position) = r.teammate_distance_sq
                     /\ \A i \in mates : SqDistTo(ps, i, r.position) >= r.teammate_distance_sq

\* the victim, alive in the snapshot, with the only teammate exactly 900
\* away: not isolated
C22_Witness ==
    /\ last.op = "analyze_death"
    /\ last.in.kill_event.victim_team = "CT"
    /\ \E i \in 1..Len(last.in.players) : last.in.players[i].name = "v1" /\ last.in.players[i].alive
    /\ last.ret.position = <<0, 0>>
    /\ last.ret.teammate_count = 1
    /\ last.ret.teammate_distance_sq = 900 * 900
    /\ "isolated" \notin Range(last.ret.mistakes)

\* C23: NO_TRADE is among the tags exactly when the death was not traded,
\* the nearest living teammate is strictly closer than 400 (was_tradeable),
\* there is a living teammate and ISOLATED was not raised, and then the
\* severity is at least 4; NO_TRADE never comes with TRADED nor with
\* ISOLATED, and was_tradeable is never true without a living teammate.
C23_NoTradeRule ==
    last.op = "analyze_death" =>
        LET r    == last.ret
            tags == Range(r.mistakes)
        IN  /\ r.was_tradeable <=> r.teammate_distance_sq < 400 * 400
            /\ "no_trade" \in tags <=> /\ ~r.was_traded
                                       /\ r.teammate_distance_sq < 400 * 400
                                       /\ r.teammate_count > 0
                                       /\ "isolated" \notin tags
            /\ "no_trade" \in tags => r.severity >= 4
            /\ ~("no_trade" \in tags /\ "traded" \in tags)
            /\ ~("no_trade" \in tags /\ "isolated" \in tags)
            /\ r.teammate_count = 0 => ~r.was_tradeable

\* a living teammate 300 away who did not trade, the attacker untouched
C23_Witness ==
    /\ last.op = "analyze_death"
    /\ last.ret.teammate_distance_sq = 300 * 300
    /\ last.ret.was_tradeable
    /\ ~last.ret.was_traded
    /\ last.ret.mistakes = <<"no_trade">>
    /\ last.ret.severity = 4

\* C24: when enemy_count > teammate_count + 2 the judgment carries
\* CLUTCH_ATTEMPT if teammate_count is 0 and OUTNUMBERED, with severity at
\* least 3, otherwise; when enemy_count <= teammate_count + 2 it carries
\* neither; the two tags never occur together.
C24_OutnumberedRule ==
    last.op = "analyze_death" =>
        LET r    == last.ret
            tags == Range(r.mistakes)
        IN  /\ "clutch" \in tags <=> (r.enemy_count > r.teammate_count + 2 /\ r.teammate_count = 0)
            /\ "outnumbered" \in tags <=> (r.enemy_count > r.teammate_count + 2 /\ r.teammate_count # 0)
            /\ "outnumbered" \in tags => r.severity >= 3
            /\ ~("clutch" \in tags /\ "outnumbered" \in tags)

\* one living teammate against a hostile count of 4
C24_Witness ==
    /\ last.op = "analyze_death"
    /\ last.ret.teammate_count = 1
    /\ last.ret.enemy_count = 4
    /\ "outnumbered" \in Range(last.ret.mistakes)
    /\ "clutch" \notin Range(last.ret.mistakes)

\* the names of the living players of the snapshot that are not on team
LivingHostiles(players, team) ==
    {players[i].name : i \in {j \in 1..Len(players) : players[j].team # team /\ players[j].alive}}

\* C27: enemy_count is the number of living hostiles with the attacker
\* counted exactly once: an attacker who is already in the snapshot as a
\* living hostile is not counted a second time.
C27_AttackerCountedOnce ==
    last.op = "analyze_death" =>
        last.ret.enemy_count = Cardinality(LivingHostiles(last.in.players, GetOr(last.in.kill_event.victim_team, "CT")) \cup {GetOr(last.in.kill_event.attacker, "?")})

\* C28: SOLO_PUSH and CLUTCH_ATTEMPT never occur in a judgment without
\* ISOLATED, so neither of them is ever the primary tag.
C28_NeverWithoutIsolated ==
    last.op = "analyze_death" =>
        LET tags == Range(last.ret.mistakes)
        IN  /\ "solo_push" \in tags => "isolated" \in tags
            /\ "clutch" \in tags => "isolated" \in tags
            /\ primary_mistake(last.ret) \notin {"solo_push", "clutch"}

\* a judgment that carries both SOLO_PUSH and ISOLATED, and two living
\* teammates
C28_Witness ==
    /\ last.op = "analyze_death"
    /\ last.ret.teammate_count = 2
    /\ "solo_push" \in Range(last.ret.mistakes)
    /\ primary_mistake(last.ret) = "isolated"

\* C29: in every judgment without TRADED the severity is the tier severity
\* of the primary tag.
C29_SeverityOfPrimary ==
    (last.op = "analyze_death" /\ "traded" \notin Range(last.ret.mistakes)) =>
        last.ret.severity = Tier(primary_mistake(last.ret))

\* an untraded judgment whose first raised tag is of a lower tier than its
\* primary tag
C29_Witness ==
    /\ last.op = "analyze_death"
    /\ last.ret.mistakes = <<"flashed", "no_trade">>
    /\ last.ret.severity = 4

\* the order of the tags from worst to least
C26_Order ==
    <<"isolated", "crossfire", "solo_push", "no_trade", "wide_peek", "utility", "flashed", "in_molly", "outnumbered", "repeeker", "first", "timing", "clutch", "traded", "fair_duel">>

\* the tag of the set S that comes first in the order, FAIR_DUEL when S is
\* empty
C26_Worst(S) ==
    IF S = {} THEN "fair_duel" ELSE C26_Order[CHOOSE i \in 1..Len(C26_Order) : C26_Order[i] \in S /\ \A j \in 1..(i - 1) : C26_Order[j] \notin S]

\* C26: primary_mistake answers the first tag of the order ISOLATED,
\* CROSSFIRE, SOLO_PUSH, NO_TRADE, WIDE_PEEK, UTILITY_DEATH, FLASHED,
\* IN_MOLLY, OUTNUMBERED, REPEEKER, FIRST_CONTACT, BAD_TIMING,
\* CLUTCH_ATTEMPT, TRADED, FAIR_DUEL that is in the tag list: a member of
\* the list when the list is not empty, the same for every order and
\* repetition of the same tags, and FAIR_DUEL for the empty list.
C26_PrimaryMistake ==
    last.op = "primary_mistake" =>
        /\ last.ret.primary = C26_Worst(Range(last.in.mistakes))
        /\ last.in.mistakes # <<>> => last.ret.primary \in Range(last.in.mistakes)
        /\ last.in.mistakes = <<>> => last.ret.primary = "fair_duel"

\* a list whose worst tag was raised last
C26_Witness ==
    /\ last.op = "primary_mistake"
    /\ last.in.mistakes = <<"fair_duel", "traded", "flashed">>
    /\ last.ret.primary = "flashed"

\* C30: after any sequence of analyze_death, update_kill and reset_round
\* calls the death-order counter is the number of judgments in round_deaths,
\* and every judgment in round_deaths has the round number current_round.
C30_RoundState ==
    /\ engine.round_death_order = Len(engine.round_deaths)
    /\ \A i \in 1..Len(engine.round_deaths) : engine.round_deaths[i].round_num = engine.current_round

\* a death judged after reset_round in the middle of a round: round_deaths
\* holds that death alone, the history both deaths of the round
C30_Witness ==
    /\ last.op = "analyze_death"
    /\ Len(engine.death_history) = 2
    /\ engine.death_history[1].round_num = engine.current_round
    /\ engine.round_deaths = <<last.ret>>
    /\ engine.round_death_order = 1

\* the judgments of the list js that carry FIRST_CONTACT
FirstContacts(js) == {i \in 1..Len(js) : "first" \in Range(js[i].mistakes)}

\* C25: when none of the rules 1-7 raised a tag the tag list is exactly
\* [FIRST_CONTACT] with severity 2 if the death-order counter is 1 and
\* exactly [FAIR_DUEL] with severity 1 otherwise; when one of them raised a
\* tag neither FIRST_CONTACT nor FAIR_DUEL is in the list.  The first death
\* judged after a round change or after reset_round has order 1 again, and
\* among the judgments of round_deaths at most one carries FIRST_CONTACT.
C25_FallbackTags ==
    [][ last'.op = "analyze_death" =>
          LET j      == last'.ret
              raised == Range(j.mistakes) \ {"first", "fair_duel"}
              order  == engine'.round_death_order
          IN  /\ raised = {} => IF order = 1 THEN j.mistakes = <<"first">> /\ j.severity = 2 ELSE j.mistakes = <<"fair_duel">> /\ j.severity = 1
              /\ raised # {} => Range(j.mistakes) = raised
              /\ (last.op = "reset_round" \/ last'.in.round_num # engine.current_round) => order = 1
              /\ Cardinality(FirstContacts(engine'.round_deaths)) <= 1 ]_vars

\* the first death of a round is FIRST_CONTACT, and judged again after
\* reset_round in the same round it is FIRST_CONTACT again
C25_Witness ==
    /\ last.op = "analyze_death"
    /\ Len(engine.death_history) = 2
    /\ engine.death_history[1].round_num = engine.current_round
    /\ engine.death_history[1].mistakes = <<"first">>
    /\ last.ret.mistakes = <<"first">>
    /\ last.ret.severity = 2
    /\ engine.round_deaths = <<last.ret>>

====
